---- MODULE Spec2Model ----
(***************************************************************************)
(* Model of unified_crawler.py: the SSE full-site search crawler            *)
(* (SSESearchCrawler.run_recursive / check_total_count / search_all), the  *)
(* merge of its leaf files (sse_search_merge), the yearly driver           *)
(* (cmd_sse_search), the drain of the inquiry column                       *)
(* (SSEInquiriesScraper.search_all) and the four download engines          *)
(* (_playwright_download_file, SSEInquiriesScraper._download_file,         *)
(* CninfoSearchDownloader._download_file, CninfoDownloader.download_file)  *)
(* with the batches that drive them, their failure log, the check of the   *)
(* files against the records (verify_and_retry), the thread pool of        *)
(* download_from_json and download_from_index, the scan for files of equal *)
(* content (deduplicate_files), the argument checks of                     *)
(* CninfoSearchDownloader.run and SSESearchCrawler.__init__, and the       *)
(* building of the cninfo index (search_and_build_index).                  *)
(*                                                                         *)
(* Dates are day numbers (day 1 is the first day that holds data, every    *)
(* day <= 0 lies before the data horizon).  A record is an integer id; the *)
(* records of a window are a contiguous id interval, and a list of records *)
(* is kept in run-length form, as a sequence of chunks <<lo, hi>> standing *)
(* for the records lo, lo+1, ..., hi in that order.                        *)
(***************************************************************************)
EXTENDS Integers, Sequences, FiniteSets, TLC

----------------------------------------------------------------------------
(* Bounds of the model *)

\* Days that may hold records: 1..NumDays; "today" is day NumDays.
NumDays == 3
\* Length of a calendar year in days.
DaysPerYear == 2
\* Items the synthetic SearchPort serves per page.  The crawler asks for
\* limit=20 but never relies on it: it reads knowledgeList and totalPage.
PageSize == 2400
\* Call depth of run_recursive at which the interpreter's recursion limit is
\* hit (sys.getrecursionlimit() frames in the real run).
MaxDepth == 5
\* SearchPort faults (failed probe, bad page body, empty page, item that
\* raises while being parsed) injected in one run.
MaxFaults == 2
\* Consecutive failing page requests explored for one page.
MaxRetries == 6
\* Largest max_pages argument of SSEInquiriesScraper.search_all.
MaxPagesArg == 2
\* Records handed to a pooled batch (download_from_json, download_from_index).
NumTasks == 3
\* Largest max_workers a pooled batch is run with.
MaxWorkersArg == 2
\* Records of one download batch.
NumRecords == 2
\* Files in the directory deduplicate_files scans.
NumFiles == 3
\* MD5 digests the contents of these files have between them.
NumDigests == 2
\* Runs of deduplicate_files on one directory.
MaxScans == 2
\* Pages the cninfo search serves for one query, and leaf files sse_search_merge
\* reads.
MaxIndexPages == 2

(* Program constants *)

\* run_recursive: "if total > 4800"
Ceiling == 4800
SSE_SEARCH_MAX_EMPTY_YEARS == 3
\* SSEInquiriesScraper.search_all: "if errors >= 5: break"
MaxPageErrors == 5

\* _playwright_download_file: "len(body) < 6000 and b'<html' in body"
WafHtmlCeiling == 6000
\* _playwright_download_file: "body[:4] == b'%PDF' or len(body) > 1000"
PlaywrightMinBody == 1000
\* sse_search_download: "os.path.getsize(fpath) > 3000"
PlaywrightSkipSize == 3000
\* SSEInquiriesScraper._download_file: "os.path.getsize(filepath) > 1000"
InquirySkipSize == 1000
\* "'text/html' in content_type and len(resp.content) < 10000"
InquiryHtmlCeiling == 10000
\* "if os.path.getsize(filepath) < 1000"
InquiryMinSize == 1000
\* "max_retries = 3", "max_retries: int = 3", "max_retries=3"
max_retries == 3
\* CninfoSearchDownloader._download_file: "len(content) < 50000"
CninfoSearchHtmlCeiling == 50000
\* "if os.path.getsize(save_path) > 1024"
CninfoSearchMinSize == 1024
\* download_from_index: "os.path.getsize(save_path) > 1024"
CninfoSearchSkipSize == 1024
\* CninfoDownloader.download_file: "len(content) > 5000"
CninfoMinBody == 5000
\* "if os.path.getsize(save_path) > 1024"
CninfoMinSize == 1024
\* download_one: "save_path.stat().st_size > 1024"
CninfoSkipSize == 1024
\* download_one: len(download_urls)
NumCandidates == 3
\* deduplicate_files: "if os.path.getsize(filepath) < 100"
DedupFloor == 100

\* Per-day record counts of the synthetic SearchPort.
CountSet == {0, 1, Ceiling, Ceiling + 1}

VARIABLES
    cnt,            \* SearchPort data: day -> number of records of that day
    mode,           \* "single": one run_recursive call; "driver": cmd_sse_search
    root,           \* the window of the outermost run_recursive call in progress
    year,           \* cmd_sse_search: year
    empty_cnt,      \* cmd_sse_search: empty_cnt
    stack,          \* call stack of run_recursive, innermost frame last
    pc,             \* where the running function is ("run", "drain", ...)
    page,           \* search_all: page
    all_results,    \* search_all: all_results (chunks)
    files,          \* output_dir: window -> records of its JSON file (chunks)
    merged,         \* sse_search_merge: all_data (chunks)
    faults,         \* SearchPort faults injected so far
    faulty,         \* some SearchPort request has failed
    consec,         \* failing requests of the current page in a row
    ev,             \* the last SearchPort interaction
    calls,          \* windows run_recursive was called with
    probes,         \* [s, e, total]: totals check_total_count returned
    bisected,       \* windows run_recursive split
    leaves,         \* [s, e, total]: windows passed to search_all, in order
    yearLog,        \* cmd_sse_search: one entry per completed yearly window
    errors,         \* SSEInquiriesScraper.search_all: errors
    total_pages,    \* SSEInquiriesScraper.search_all: total_pages
    max_pages,      \* SSEInquiriesScraper.search_all: max_pages (0 for None)
    engine,         \* the download engine that runs the batch
    disk,           \* files directory: record -> the file at its target path
    disk0,          \* the files directory when the batch started
    queue,          \* records whose download task has not ended, in order
    attempt,        \* the retry loop's attempt, counted from 1
    cand,           \* download_one: position in download_urls, from 1
    result,         \* record -> what its task returned
    stats,          \* the batch's success / skip / fail counts
    failed_list,    \* the batch's failure entries, in order
    fetched,        \* the last fetch: its url, its number for that url, outcome
    solves,         \* record -> calls of _solve_waf in its task
    networked,      \* the batch has issued a network request
    log,            \* the failure log (download_failed.txt) of the engine
    log0,           \* the failure log when the run started
    report,         \* download_from_index: the rows of the report it wrote
    has_url,        \* verify_and_retry: record -> its 'url' is not empty
    valid_count,    \* verify_and_retry: valid_count
    missing_records,\* verify_and_retry: missing_records
    user_input,     \* verify_and_retry: the operator's last answer, "" if none
    records,        \* the record list handed to a pooled batch
    futures,        \* the tasks submitted to the ThreadPoolExecutor, in order
    tstate,         \* task -> "queued" | "running" | "ok" | "fail"
    rows,           \* what the loop over as_completed has accumulated
    max_workers,    \* max_workers of the ThreadPoolExecutor
    listing,        \* files_dir: file (in os.listdir order) -> its content
    present,        \* files_dir: the files that have not been deleted
    seen_hashes,    \* deduplicate_files: seen_hashes (0: digest not seen)
    duplicates,     \* deduplicate_files: duplicates
    confirm,        \* deduplicate_files: the operator's answer, "" if none
    history,        \* the directory and the report of each scan so far
    args,           \* the arguments of run / of SSESearchCrawler(...)
    session,        \* self.session: "none" until it is made, then "open"
    index_file,     \* latest_index.json: "none" or "written"
    input,          \* the items of the pages (files) read so far, in order
    page_num,       \* search_and_build_index: page_no; the merge: files read
    all_records,    \* search_and_build_index: all_records; the merge: all_data
    seen_keys       \* search_and_build_index: seen_keys; the merge: seen

searchVars == <<cnt, mode, root, year, empty_cnt, stack, pc, page, all_results,
                files, merged, faults, faulty, consec, ev, calls, probes,
                bisected, leaves, yearLog>>

inquiryVars == <<errors, total_pages, max_pages>>

downloadVars == <<engine, disk, disk0, queue, attempt, cand, result, stats,
                  failed_list, fetched, solves, networked>>

logVars == <<log, log0, report>>

reconcileVars == <<has_url, valid_count, missing_records, user_input>>

poolVars == <<records, futures, tstate, rows, max_workers>>

dedupVars == <<listing, present, seen_hashes, duplicates, confirm, history>>

configVars == <<args, session, index_file>>

identityVars == <<input, page_num, all_records, seen_keys>>

toolVars == <<dedupVars, configVars, identityVars>>

otherVars == <<logVars, reconcileVars, poolVars, toolVars>>

vars == <<searchVars, inquiryVars, downloadVars, otherVars>>

----------------------------------------------------------------------------
(* The synthetic SearchPort: total is additive over days *)

Days == 1..NumDays

Cnt(d) == IF d \in DOMAIN cnt THEN cnt[d] ELSE 0

RECURSIVE SumDays(_, _)
SumDays(s, e) == IF s > e THEN 0 ELSE Cnt(s) + SumDays(s + 1, e)

\* totalSize the port reports for publishTimeStart = s, publishTimeEnd = e.
Total(s, e) == SumDays(s, e)

\* Records of days before day s.
Base(s) == SumDays(1, s - 1)

\* Ids of the records of window [s, e], as a set.
WindowIds(s, e) == (Base(s) + 1)..(Base(s) + Total(s, e))

\* totalPage the port reports for a window.
TotalPage(s, e) == (Total(s, e) + PageSize - 1) \div PageSize

Min(a, b) == IF a < b THEN a ELSE b

\* knowledgeList of page p (from 0) of window [s, e]: <<>> or one chunk.
PageItems(s, e, p) ==
    LET lo == Base(s) + p * PageSize + 1
        hi == Min(Base(s) + Total(s, e), lo + PageSize - 1)
    IN IF lo > hi THEN <<>> ELSE << <<lo, hi>> >>

----------------------------------------------------------------------------
(* Record lists in run-length form *)

ChunkLen(c) == c[2] - c[1] + 1

RECURSIVE Count(_)
\* len(list)
Count(chunks) ==
    IF chunks = <<>> THEN 0 ELSE ChunkLen(Head(chunks)) + Count(Tail(chunks))

Range(seq) == {seq[i] : i \in DOMAIN seq}

\* The records of a list, as a set of ids.
Ids(chunks) == UNION {c[1]..c[2] : c \in Range(chunks)}

Front(seq) == SubSeq(seq, 1, Len(seq) - 1)
Top(seq) == seq[Len(seq)]

----------------------------------------------------------------------------
(* SSESearchCrawler.run_recursive *)

\* A call run_recursive(s, e).  st: "call" before the total is known, "left" /
\* "right" while the first / second half is running; acc: the first half's
\* return value.
Frame(s, e) == [s |-> s, e |-> e, st |-> "call", mid |-> s, acc |-> 0]

\* check_total_count: the port's totalSize, or 0 when the request raises, the
\* body cannot be parsed or the code is not '0'.
CheckTotalCount(s, e, ok) == IF ok THEN Total(s, e) ELSE 0

\* A zero total that is not recognised as empty.
IsEmptyTotalNegativeOnly(total) == total < 0

\* "if total == 0: return 0"
IsEmptyTotal(total) == total = 0

\* A ceiling test that is off by one.
OverCeilingOffByOne(total) == total > Ceiling + 1

\* "if total > 4800"
OverCeiling(total) == total > Ceiling

\* mid = (dt_start + (dt_end - dt_start) / 2).strftime("%Y-%m-%d"): the half
\* day of an odd span is cut by the formatting; "if mid == end_date: mid =
\* start_date".
Mid(s, e) ==
    LET m == s + ((e - s) \div 2)
    IN IF m = e THEN s ELSE m

\* next_day = mid + timedelta(days=1)
NextDay(mid) == mid + 1

RECURSIVE Unwind(_, _)
\* run_recursive returns r to its callers stk: "return run_recursive(start,
\* mid) + run_recursive(next_day, end_date)".  A caller whose first half has
\* returned calls the second half; one whose second half has returned returns
\* the sum to its own caller.
Unwind(stk, r) ==
    IF stk = <<>>
    THEN [stack |-> <<>>, ret |-> r, returned |-> TRUE]
    ELSE LET f == Top(stk)
         IN IF f.st = "left"
            THEN [stack |-> Append(Append(Front(stk),
                                          [f EXCEPT !.st = "right", !.acc = r]),
                                   Frame(NextDay(f.mid), f.e)),
                  ret |-> 0, returned |-> FALSE]
            ELSE Unwind(Front(stk), f.acc + r)

----------------------------------------------------------------------------
(* cmd_sse_search: the yearly driver *)

\* datetime.now().year and today's date
CurrYear == (NumDays + DaysPerYear - 1) \div DaysPerYear
Today == NumDays

\* start = f"{year}-01-01"
YearStart(y) == (y - 1) * DaysPerYear + 1

\* end = f"{year}-12-31" if year != curr_year else today
YearEnd(y) == IF y # CurrYear THEN y * DaysPerYear ELSE Today

\* Windows passed to search_all during the outermost call on window r.
LeavesOf(r) == {i \in DOMAIN leaves : leaves[i].root = r}

\* The loop body after "total_found = crawler.run_recursive(start, end)".
AfterYear(total_found) ==
    LET streak == IF total_found > 0 THEN 0 ELSE empty_cnt + 1
    IN /\ empty_cnt' = streak
       /\ yearLog' = Append(yearLog, [year |-> year,
                                      leaves |-> Cardinality(LeavesOf(root)),
                                      found |-> total_found,
                                      streak |-> streak])
       /\ IF streak >= SSE_SEARCH_MAX_EMPTY_YEARS
          THEN /\ stack' = <<>>
               /\ pc' = "merge"
               /\ UNCHANGED <<year, root, calls>>
          ELSE /\ year' = year - 1
               /\ root' = <<YearStart(year - 1), YearEnd(year - 1)>>
               /\ stack' = <<Frame(YearStart(year - 1), YearEnd(year - 1))>>
               /\ calls' = calls \cup {<<YearStart(year - 1), YearEnd(year - 1)>>}
               /\ pc' = "run"

\* The innermost run_recursive call returns r.
Return(r) ==
    LET u == Unwind(Front(stack), r)
    IN IF ~u.returned
       THEN /\ stack' = u.stack
            /\ pc' = "run"
            /\ calls' = calls \cup {<<Top(u.stack).s, Top(u.stack).e>>}
            /\ UNCHANGED <<root, year, empty_cnt, yearLog>>
       ELSE IF mode = "single"
       THEN /\ stack' = <<>>
            /\ pc' = "merge"
            /\ UNCHANGED <<root, year, empty_cnt, calls, yearLog>>
       ELSE AfterYear(u.ret)

\* run_recursive once check_total_count has returned total.
RunRecursive(total) ==
    LET f == Top(stack)
    IN IF IsEmptyTotal(total)
       THEN /\ Return(0)
            /\ UNCHANGED <<page, all_results, files, bisected, leaves>>
       ELSE IF OverCeiling(total)
       THEN LET mid == Mid(f.s, f.e)
            IN /\ stack' = Append(Append(Front(stack),
                                         [f EXCEPT !.st = "left", !.mid = mid]),
                                  Frame(f.s, mid))
               /\ calls' = calls \cup {<<f.s, mid>>}
               /\ bisected' = bisected \cup {<<f.s, f.e>>}
               /\ UNCHANGED <<pc, root, year, empty_cnt, yearLog, page,
                              all_results, files, leaves>>
       ELSE /\ pc' = "drain"
            /\ page' = 0
            /\ all_results' = <<>>
            /\ leaves' = Append(leaves, [s |-> f.s, e |-> f.e, total |-> total,
                                         root |-> root])
            /\ UNCHANGED <<stack, calls, bisected, root, year, empty_cnt,
                           yearLog, files>>

CanProbe == pc = "run" /\ stack # <<>> /\ Top(stack).st = "call"

Event(kind, n) ==
    [kind |-> kind, s |-> Top(stack).s, e |-> Top(stack).e, n |-> n]

\* check_total_count answers with the port's total.
ProbeOk ==
    /\ CanProbe
    /\ Len(stack) < MaxDepth
    /\ LET f == Top(stack)
           total == CheckTotalCount(f.s, f.e, TRUE)
       IN /\ ev' = Event("probe", total)
          /\ probes' = probes \cup {[s |-> f.s, e |-> f.e, total |-> total]}
          /\ RunRecursive(total)
    /\ UNCHANGED <<inquiryVars, downloadVars, otherVars, cnt, mode, merged, faults, faulty, consec>>

\* The probe request fails (exception, unparseable body, code other than '0').
ProbeFail ==
    /\ CanProbe
    /\ Len(stack) < MaxDepth
    /\ faults < MaxFaults
    /\ LET f == Top(stack)
           total == CheckTotalCount(f.s, f.e, FALSE)
       IN /\ ev' = Event("probefail", total)
          /\ probes' = probes \cup {[s |-> f.s, e |-> f.e, total |-> total]}
          /\ RunRecursive(total)
    /\ faults' = faults + 1
    /\ faulty' = TRUE
    /\ UNCHANGED <<inquiryVars, downloadVars, otherVars, cnt, mode, merged, consec>>

\* The call depth has reached the interpreter's recursion limit.  Where the
\* RecursionError is raised is not fixed: inside the try block of
\* check_total_count it is caught ("except Exception") and the probe returns
\* 0; anywhere else in run_recursive it propagates and ends the program.
RecursionCaught ==
    /\ CanProbe
    /\ Len(stack) = MaxDepth
    /\ LET f == Top(stack)
           total == CheckTotalCount(f.s, f.e, FALSE)
       IN /\ ev' = Event("overflow", total)
          /\ probes' = probes \cup {[s |-> f.s, e |-> f.e, total |-> total]}
          /\ RunRecursive(total)
    /\ UNCHANGED <<inquiryVars, downloadVars, otherVars, cnt, mode, merged, faults, faulty, consec>>

RecursionCrash ==
    /\ CanProbe
    /\ Len(stack) = MaxDepth
    /\ pc' = "crashed"
    /\ ev' = Event("crash", 0)
    /\ UNCHANGED <<inquiryVars, downloadVars, otherVars, cnt, mode, root, year, empty_cnt, stack, page, all_results,
                   files, merged, faults, faulty, consec, calls, probes,
                   bisected, leaves, yearLog>>

----------------------------------------------------------------------------
(* SSESearchCrawler.search_all, and run_recursive after it *)

\* run_recursive after "results = self.search_all(...)": "if results:" the
\* JSON (and CSV) file of the window is written; "return len(results)".
FinishDrain(results) ==
    LET f == Top(stack)
        w == <<f.s, f.e>>
    IN /\ files' = IF results # <<>>
                   THEN [x \in DOMAIN files \cup {w} |->
                            IF x = w THEN results ELSE files[x]]
                   ELSE files
       /\ page' = 0
       /\ all_results' = <<>>
       /\ Return(Count(results))
       /\ UNCHANGED <<bisected, leaves>>

\* search_all once a page body was parsed with code '0': "if not k_list:
\* break", the items are appended, "if page >= total_page - 1: break",
\* "page += 1".
SearchAllPage(k_list, total_page) ==
    IF k_list = <<>>
    THEN FinishDrain(all_results)
    ELSE IF page >= total_page - 1
    THEN FinishDrain(all_results \o k_list)
    ELSE /\ page' = page + 1
         /\ all_results' = all_results \o k_list
         /\ UNCHANGED <<files, stack, pc, root, year, empty_cnt, calls,
                        yearLog, bisected, leaves>>

\* search_all when parse_jsonp returns None or the code is not '0':
\* "if not data or data.get('code') != '0': break".
SearchAllBadBody == FinishDrain(all_results)

\* search_all when the request, or the handling of the page after the first
\* n items were appended, raises: "except Exception", sleep, same page again.
SearchAllException(appended) ==
    /\ all_results' = all_results \o appended
    /\ UNCHANGED <<page, files, stack, pc, root, year, empty_cnt, calls,
                   yearLog, bisected, leaves>>

\* The port answers the page request.
PageOk ==
    /\ pc = "drain"
    /\ LET f == Top(stack)
       IN /\ ev' = Event("page", page)
          /\ SearchAllPage(PageItems(f.s, f.e, page), TotalPage(f.s, f.e))
    /\ consec' = 0
    /\ UNCHANGED <<inquiryVars, downloadVars, otherVars, cnt, mode, merged, faults, faulty, probes>>

\* The port answers with an empty knowledgeList.
PageEmpty ==
    /\ pc = "drain"
    /\ faults < MaxFaults
    /\ LET f == Top(stack)
       IN /\ ev' = Event("empty", page)
          /\ SearchAllPage(<<>>, TotalPage(f.s, f.e))
    /\ consec' = 0
    /\ faults' = faults + 1
    /\ faulty' = TRUE
    /\ UNCHANGED <<inquiryVars, downloadVars, otherVars, cnt, mode, merged, probes>>

\* The body cannot be unwrapped or parsed, or carries another code.
PageBadBody ==
    /\ pc = "drain"
    /\ faults < MaxFaults
    /\ ev' = Event("badbody", page)
    /\ SearchAllBadBody
    /\ consec' = 0
    /\ faults' = faults + 1
    /\ faulty' = TRUE
    /\ UNCHANGED <<inquiryVars, downloadVars, otherVars, cnt, mode, merged, probes>>

\* The request raises (timeout, connection error).
PageException ==
    /\ pc = "drain"
    /\ consec < MaxRetries
    /\ ev' = Event("exception", page)
    /\ SearchAllException(<<>>)
    /\ consec' = consec + 1
    /\ faulty' = TRUE
    /\ UNCHANGED <<inquiryVars, downloadVars, otherVars, cnt, mode, merged, faults, probes>>

\* The second item of the page is malformed: _parse_item raises after the
\* first item was appended.
PagePartial ==
    /\ pc = "drain"
    /\ faults < MaxFaults
    /\ consec < MaxRetries
    /\ LET f == Top(stack)
           k_list == PageItems(f.s, f.e, page)
       IN /\ k_list # <<>>
          /\ ChunkLen(k_list[1]) >= 2
          /\ ev' = Event("partial", page)
          /\ SearchAllException(<< <<k_list[1][1], k_list[1][1]>> >>)
    /\ consec' = consec + 1
    /\ faults' = faults + 1
    /\ faulty' = TRUE
    /\ UNCHANGED <<inquiryVars, downloadVars, otherVars, cnt, mode, merged, probes>>

----------------------------------------------------------------------------
(* sse_search_merge *)

\* The records of chunk c that are not records of chunk d, in order.
ChunkMinus(c, d) ==
    IF d[2] < c[1] \/ d[1] > c[2]
    THEN <<c>>
    ELSE (IF c[1] < d[1] THEN << <<c[1], d[1] - 1>> >> ELSE <<>>)
         \o (IF d[2] < c[2] THEN << <<d[2] + 1, c[2]>> >> ELSE <<>>)

RECURSIVE ListMinus(_, _)
ListMinus(chunks, d) ==
    IF chunks = <<>> THEN <<>>
    ELSE ChunkMinus(Head(chunks), d) \o ListMinus(Tail(chunks), d)

RECURSIVE Unseen(_, _)
\* The records of chunks whose url is not in seen: "item['url'] not in seen".
\* Every record of the port carries a url (its id).
Unseen(chunks, seen) ==
    IF seen = <<>> THEN chunks
    ELSE Unseen(ListMinus(chunks, Head(seen)), Tail(seen))

RECURSIVE MergeItems(_, _)
\* "for item in data": all_data after the items of data; seen holds the urls
\* of all_data.
MergeItems(all_data, data) ==
    IF data = <<>> THEN all_data
    ELSE MergeItems(all_data \o Unseen(<<Head(data)>>, all_data), Tail(data))

\* Order of the file names {keyword}_{start}_{end}.json under sorted().
NameLess(a, b) == a[1] < b[1] \/ (a[1] = b[1] /\ a[2] < b[2])

RECURSIVE MergeFiles(_, _)
\* "for jf in target_files"
MergeFiles(all_data, names) ==
    IF names = {} THEN all_data
    ELSE LET jf == CHOOSE a \in names : \A b \in names \ {a} : NameLess(a, b)
         IN MergeFiles(MergeItems(all_data, files[jf]), names \ {jf})

\* all_data written to the merged file; without data files nothing is written.
SseSearchMerge ==
    IF DOMAIN files = {} THEN merged ELSE MergeFiles(<<>>, DOMAIN files)

Merge ==
    /\ pc = "merge"
    /\ merged' = SseSearchMerge
    /\ pc' = "done"
    /\ ev' = [kind |-> "merge", s |-> 0, e |-> 0, n |-> 0]
    /\ UNCHANGED <<inquiryVars, downloadVars, otherVars, cnt, mode, root, year, empty_cnt, stack, page, all_results,
                   files, faults, faulty, consec, calls, probes, bisected,
                   leaves, yearLog>>

----------------------------------------------------------------------------
(* SSEInquiriesScraper.search_all *)

\* get_total_count: (total, pageCount) of the port's pageHelp for the window
\* of the call; (None, None), written <<-1, -1>>, when the request raises or
\* the body cannot be parsed.
GetTotalCount(ok) ==
    IF ok THEN <<Total(root[1], root[2]), TotalPage(root[1], root[2])>>
    ELSE <<-1, -1>>

\* data['result'] of page page_no; the column counts its pages from 1.
InquiryPageItems(page_no) == PageItems(root[1], root[2], page_no - 1)

InquiryEvent(kind, n) ==
    [kind |-> kind, s |-> root[1], e |-> root[2], n |-> n]

\* "return all_results", "return []"
InquiryReturn(results) ==
    /\ pc' = "returned"
    /\ all_results' = results
    /\ UNCHANGED page

\* The head of search_all: "page = 1", "errors = 0", "total, total_pages =
\* self.get_total_count(...)", "if total is None: return []".
InquirySearchAllStart(r) ==
    /\ errors' = 0
    /\ IF r[1] = -1
       THEN /\ InquiryReturn(<<>>)
            /\ UNCHANGED total_pages
       ELSE /\ total_pages' = r[2]
            /\ page' = 1
            /\ all_results' = <<>>
            /\ pc' = "page"

\* The loop body once the page body was parsed: "if not results: break", the
\* items are appended, "errors = 0", "if page >= total_pages: break", "if
\* max_pages and page >= max_pages: break", "page += 1".
InquirySearchAllPage(results) ==
    IF results = <<>>
    THEN /\ InquiryReturn(all_results)
         /\ UNCHANGED errors
    ELSE /\ errors' = 0
         /\ IF page >= total_pages \/ (max_pages # 0 /\ page >= max_pages)
            THEN InquiryReturn(all_results \o results)
            ELSE /\ page' = page + 1
                 /\ all_results' = all_results \o results
                 /\ UNCHANGED pc

\* "if not data:" and "except Exception": "errors += 1", "if errors >= 5:
\* break", sleep, same page again.  appended: the items appended before the
\* handling of the page raised.
InquirySearchAllError(appended) ==
    /\ errors' = errors + 1
    /\ IF errors + 1 >= MaxPageErrors
       THEN InquiryReturn(all_results \o appended)
       ELSE /\ all_results' = all_results \o appended
            /\ UNCHANGED <<pc, page>>

\* What no step of search_all changes.
inquiryFrame == <<cnt, mode, root, year, empty_cnt, stack, files, merged,
                  consec, calls, probes, bisected, leaves, yearLog, max_pages,
                  downloadVars, otherVars>>

\* get_total_count answers with the port's pageHelp.
InquiryCountOk ==
    /\ pc = "count"
    /\ ev' = InquiryEvent("count", GetTotalCount(TRUE)[1])
    /\ InquirySearchAllStart(GetTotalCount(TRUE))
    /\ UNCHANGED <<faults, faulty, inquiryFrame>>

\* The request of get_total_count fails or its body cannot be parsed.
InquiryCountFail ==
    /\ pc = "count"
    /\ ev' = InquiryEvent("countfail", 0)
    /\ InquirySearchAllStart(GetTotalCount(FALSE))
    /\ faults' = faults + 1
    /\ faulty' = TRUE
    /\ UNCHANGED inquiryFrame

\* The port answers the page request.
InquiryPageOk ==
    /\ pc = "page"
    /\ ev' = InquiryEvent("page", page)
    /\ InquirySearchAllPage(InquiryPageItems(page))
    /\ UNCHANGED <<total_pages, faults, faulty, inquiryFrame>>

\* The port answers with an empty result list.
InquiryPageEmpty ==
    /\ pc = "page"
    /\ faults < MaxFaults
    /\ ev' = InquiryEvent("empty", page)
    /\ InquirySearchAllPage(<<>>)
    /\ faults' = faults + 1
    /\ faulty' = TRUE
    /\ UNCHANGED <<total_pages, inquiryFrame>>

\* The body cannot be unwrapped or parsed: "if not data".
InquiryPageBadBody ==
    /\ pc = "page"
    /\ ev' = InquiryEvent("badbody", page)
    /\ InquirySearchAllError(<<>>)
    /\ faulty' = TRUE
    /\ UNCHANGED <<total_pages, faults, inquiryFrame>>

\* The request raises (timeout, connection error).
InquiryPageException ==
    /\ pc = "page"
    /\ ev' = InquiryEvent("exception", page)
    /\ InquirySearchAllError(<<>>)
    /\ faulty' = TRUE
    /\ UNCHANGED <<total_pages, faults, inquiryFrame>>

\* The second item of the page is malformed: _parse_item raises after the
\* first item was appended.
InquiryPagePartial ==
    /\ pc = "page"
    /\ faults < MaxFaults
    /\ LET results == InquiryPageItems(page)
       IN /\ results # <<>>
          /\ ChunkLen(results[1]) >= 2
          /\ ev' = InquiryEvent("partial", page)
          /\ InquirySearchAllError(<< <<results[1][1], results[1][1]>> >>)
    /\ faults' = faults + 1
    /\ faulty' = TRUE
    /\ UNCHANGED <<total_pages, inquiryFrame>>

----------------------------------------------------------------------------
(* The download engines: responses, files and their classification *)

Engines == {"playwright", "inquiry", "cninfo_search", "cninfo"}

Recs == 1..NumRecords

\* results / records / rows of the batch, in order.
AllRecords == [i \in Recs |-> i]

\* A body is its length and what its bytes are: "pdf" starts with %PDF,
\* "html" is a text/html page with an <html tag, "challenge" is such a page
\* that carries the script of the anti-bot shield, "other" is any other file.
\* Each engine is given the lengths next to the sizes it compares with and
\* the kinds of body it tells apart.
BodySizes ==
    CASE engine = "playwright" -> {10, 900, 1000, 1001, 6000, 50000}
      [] engine = "inquiry" -> {999, 1000, 1001, 10000}
      [] engine = "cninfo_search" -> {1024, 1025, 50000}
      [] engine = "cninfo" -> {1024, 1025, 5000, 5001}
BodyKinds ==
    CASE engine = "playwright" -> {"pdf", "html", "challenge", "other"}
      [] engine = "inquiry" -> {"html", "other"}
      [] engine = "cninfo_search" -> {"html", "other"}
      [] engine = "cninfo" -> {"pdf", "other"}
Bodies == [size : BodySizes, kind : BodyKinds]

\* body[:4] == b'%PDF'
IsPdf(body) == body.kind = "pdf"
\* b'var arg1=' in body or b'var _0x' in body
HasMarker(body) == body.kind = "challenge"
\* b'<html' in body
HasHtmlTag(body) == body.kind \in {"html", "challenge"}
\* 'text/html' in the Content-Type header
CtypeHtml(body) == body.kind \in {"html", "challenge"}

NoBody == [size |-> 0, kind |-> "none"]
\* The page a server sends with an error status.
ErrorBody == [size |-> 900, kind |-> "html"]

Ok(body) == [kind |-> "response", status |-> 200, body |-> body]
HttpError(status) == [kind |-> "response", status |-> status, body |-> ErrorBody]
\* The request raises: "timeout" (requests.exceptions.Timeout) or "error".
Raised(kind) == [kind |-> kind, status |-> 0, body |-> NoBody]

ErrorStatuses == {404, 500}
ExceptionKinds == {"timeout", "error"}

\* The file at a target path.
NoFile == [exists |-> FALSE, size |-> 0, whole |-> FALSE]
\* whole: the file holds a complete body the engine accepted.
File(size, whole) == [exists |-> TRUE, size |-> size, whole |-> whole]

\* Bytes that reached the file when a write stopped before its end.
PrefixSizes == {0, 3001}
WrittenPrefixes(size) == {k \in PrefixSizes : k < size}

\* The size above which a file at the target path is taken as downloaded.
SkipSize ==
    CASE engine = "playwright" -> PlaywrightSkipSize
      [] engine = "inquiry" -> InquirySkipSize
      [] engine = "cninfo_search" -> CninfoSearchSkipSize
      [] engine = "cninfo" -> CninfoSkipSize

\* "os.path.exists(path) and os.path.getsize(path) > ..."
SkipCheck(file) == file.exists /\ file.size > SkipSize

\* _playwright_download_file: is_waf
IsWaf(body) ==
    \/ HasMarker(body)
    \/ ~IsPdf(body) /\ body.size < WafHtmlCeiling /\ HasHtmlTag(body)

\* A shield that is solved again whenever the retried body is a challenge.
PlaywrightVerdictSolvesAgain(resp, after_waf) ==
    IF resp.kind # "response" THEN "stop"
    ELSE IF IsWaf(resp.body) THEN "challenge"
    ELSE IF after_waf /\ ~IsPdf(resp.body) THEN "postchallenge"
    ELSE IF IsPdf(resp.body) \/ resp.body.size > PlaywrightMinBody THEN "write"
    ELSE "stop"

\* _playwright_download_file: what becomes of a fetch.  The status of the
\* response is not looked at.
PlaywrightVerdict(resp, after_waf) ==
    IF resp.kind # "response" THEN "stop"
    ELSE IF ~after_waf /\ IsWaf(resp.body) THEN "challenge"
    ELSE IF after_waf /\ ~IsPdf(resp.body) THEN "postchallenge"
    ELSE IF IsPdf(resp.body) \/ resp.body.size > PlaywrightMinBody THEN "write"
    ELSE "stop"

\* SSEInquiriesScraper._download_file: raise_for_status raises for every
\* status from 400 on, the HTML test raises ValueError; both land in "except
\* Exception".
InquiryVerdict(resp) ==
    IF resp.kind # "response" THEN "retry"
    ELSE IF resp.status >= 400 THEN "retry"
    ELSE IF CtypeHtml(resp.body) /\ resp.body.size < InquiryHtmlCeiling
    THEN "retry"
    ELSE "write"

\* CninfoSearchDownloader._download_file
CninfoSearchVerdict(resp) ==
    IF resp.kind # "response" THEN "retry"
    ELSE IF resp.status = 200
    THEN IF /\ CtypeHtml(resp.body)
            /\ resp.body.size < CninfoSearchHtmlCeiling
            /\ HasHtmlTag(resp.body)
         THEN "retry"
         ELSE "write"
    ELSE IF resp.status \in {404, 410} THEN "stop"
    ELSE "retry"

\* CninfoDownloader.download_file
CninfoVerdict(resp) ==
    IF resp.kind # "response" THEN "retry"
    ELSE IF resp.status = 200
    THEN IF IsPdf(resp.body) \/ resp.body.size > CninfoMinBody
         THEN "write"
         ELSE "retry"
    ELSE IF resp.status = 404 THEN "stop"
    ELSE "retry"

\* "write": the body goes to the target path; "retry": the attempt has
\* failed and the loop goes on; "stop", "postchallenge": the function returns
\* a failure at once; "challenge": _solve_waf is called.
Verdict(resp, after_waf) ==
    CASE engine = "playwright" -> PlaywrightVerdict(resp, after_waf)
      [] engine = "inquiry" -> InquiryVerdict(resp)
      [] engine = "cninfo_search" -> CninfoSearchVerdict(resp)
      [] engine = "cninfo" -> CninfoVerdict(resp)

\* The test of the written file's size; _playwright_download_file has none.
CommitOk(size) ==
    CASE engine = "playwright" -> TRUE
      [] engine = "inquiry" -> ~(size < InquiryMinSize)
      [] engine = "cninfo_search" -> size > CninfoSearchMinSize
      [] engine = "cninfo" -> size > CninfoMinSize

\* A loop that makes one attempt more.
CanRetryOnceMore == engine # "playwright" /\ attempt <= max_retries

\* "for attempt in range(...)": another attempt follows this one.
CanRetry == engine # "playwright" /\ attempt < max_retries

----------------------------------------------------------------------------
(* The download batches *)

\* The failure log: whether the file exists, and the records its lines name.
NoLog == [exists |-> FALSE, entries |-> <<>>]
Log(entries) == [exists |-> TRUE, entries |-> entries]

\* open(fail_log, 'a') and one line per entry.
RewriteLogAppends(entries) == Log(log.entries \o entries)

\* open(fail_log, 'w') and one line per entry.
RewriteLog(entries) == Log(entries)

\* sse_search_download and download_from_index build their task list first;
\* _download_file (inquiry) and download_one test the file themselves.
StartPc == IF engine \in {"inquiry", "cninfo"} THEN "check" ELSE "fetch"

AfterTaskPc(rest) == IF rest = <<>> THEN "report" ELSE StartPc

\* Counters that leave out the files found in place.
TallyWithoutSkips(status) ==
    IF status = "skip" THEN stats ELSE [stats EXCEPT ![status] = @ + 1]

\* The counters after a task that ended with status: download_from_json
\* counts "跳过" as skip, download_from_index writes a row with the status,
\* download_one counts a file that exists as a success, sse_search_download
\* prints the mark of each task, the retry of verify_and_retry counts every
\* ok as a success.
Tally(status) ==
    IF status = "skip" /\ (engine = "cninfo" \/ mode = "reconcile")
    THEN [stats EXCEPT !.success = @ + 1]
    ELSE [stats EXCEPT ![status] = @ + 1]

\* A batch that adds a failure entry for every task.
EndTaskLogsAll(status) ==
    /\ result' = [result EXCEPT ![Head(queue)] = status]
    /\ stats' = Tally(status)
    /\ failed_list' = Append(failed_list, Head(queue))
    /\ queue' = Tail(queue)
    /\ attempt' = 1
    /\ cand' = 1
    /\ pc' = AfterTaskPc(Tail(queue))

\* The task of the first record of the queue returns.  The batches keep a
\* list of their failures, the retry of verify_and_retry only counts them.
EndTask(status) ==
    /\ result' = [result EXCEPT ![Head(queue)] = status]
    /\ stats' = Tally(status)
    /\ failed_list' = IF status = "fail" /\ mode # "reconcile"
                      THEN Append(failed_list, Head(queue))
                      ELSE failed_list
    /\ queue' = Tail(queue)
    /\ attempt' = 1
    /\ cand' = 1
    /\ pc' = AfterTaskPc(Tail(queue))

\* A download_one that gives up after its first url.
UrlFailedAtOnce == EndTask("fail")

\* The function that fetches one url returns a failure: download_one goes on
\* with the next of download_urls, every other caller has only this url.
UrlFailed ==
    IF engine = "cninfo" /\ cand < NumCandidates
    THEN /\ cand' = cand + 1
         /\ attempt' = 1
         /\ pc' = "fetch"
         /\ UNCHANGED <<queue, result, stats, failed_list>>
    ELSE EndTask("fail")

\* One pass of the attempt loop with response resp, of whose body written
\* bytes reach the file (all of them unless the write raises).
Attempt(resp, written) ==
    LET r == Head(queue)
        after_waf == pc = "refetch"
        v == Verdict(resp, after_waf)
        size == resp.body.size
        res == IF v # "write" THEN v
               ELSE IF written < size THEN "writeerror"
               ELSE IF CommitOk(size) THEN "ok"
               ELSE "small"
        n == IF fetched.rec = r /\ fetched.cand = cand THEN fetched.n + 1
             ELSE 1
    IN /\ fetched' = [rec |-> r, cand |-> cand, n |-> n,
                      status |-> resp.status, first |-> Verdict(resp, FALSE),
                      res |-> res, after_waf |-> after_waf]
       /\ networked' = TRUE
       /\ disk' = IF v # "write" THEN disk
                  ELSE IF res = "small" THEN [disk EXCEPT ![r] = NoFile]
                  ELSE [disk EXCEPT ![r] = File(written, written = size)]
       /\ IF res = "ok" THEN EndTask("success")
          ELSE IF res = "challenge"
          THEN /\ pc' = "solve"
               /\ UNCHANGED <<queue, attempt, cand, result, stats, failed_list>>
          ELSE IF res \in {"stop", "postchallenge"} THEN UrlFailed
          ELSE IF CanRetry
          THEN /\ attempt' = attempt + 1
               /\ UNCHANGED <<pc, queue, cand, result, stats, failed_list>>
          ELSE UrlFailed

\* What no step of a download batch changes.
batchInputs == <<cnt, mode, root, year, empty_cnt, stack, page, all_results,
                 files, merged, faults, faulty, consec, ev, calls, probes,
                 bisected, leaves, yearLog, inquiryVars, engine, disk0, log0,
                 has_url, poolVars, toolVars>>

\* What no step of a download task changes.
taskFrame == <<batchInputs, log, report>>

downloadFrame == <<taskFrame, valid_count, missing_records, user_input>>

Fetching == pc \in {"fetch", "refetch"}

\* sse_search_download, download_from_index: the records whose file passes
\* the size test are left out of the task list.  sse_search_download returns
\* when the list is empty, else it opens the announcement page once.
BuildTasks ==
    /\ pc = "build"
    /\ LET Pending(r) == ~SkipCheck(disk[r])
           tasks == SelectSeq(AllRecords, Pending)
           skipped == NumRecords - Len(tasks)
       IN /\ queue' = tasks
          /\ result' = [r \in Recs |->
                           IF Pending(r) THEN "none" ELSE "skip"]
          /\ stats' = [stats EXCEPT !.skip = skipped]
          /\ networked' = (engine = "playwright" /\ tasks # <<>>)
          /\ pc' = IF tasks # <<>> THEN "fetch"
                   ELSE IF engine = "playwright" THEN "finished"
                   ELSE "report"
    /\ UNCHANGED <<disk, attempt, cand, failed_list, fetched, solves,
                   downloadFrame>>

\* SSEInquiriesScraper._download_file, download_one: the file test at the
\* head of the task.  _download_file removes a file that fails it.
CheckExisting ==
    /\ pc = "check"
    /\ LET r == Head(queue)
       IN IF SkipCheck(disk[r])
          THEN /\ EndTask("skip")
               /\ UNCHANGED disk
          ELSE /\ disk' = IF engine = "inquiry" /\ disk[r].exists
                          THEN [disk EXCEPT ![r] = NoFile]
                          ELSE disk
               /\ pc' = "fetch"
               /\ UNCHANGED <<queue, attempt, cand, result, stats, failed_list>>
    /\ UNCHANGED <<fetched, solves, networked, downloadFrame>>

\* The server answers 200 with a body, which is written in full if the
\* engine accepts it.
FetchOk ==
    /\ Fetching
    /\ \E body \in Bodies : Attempt(Ok(body), body.size)
    /\ UNCHANGED <<solves, downloadFrame>>

\* The server answers with an error status.
FetchHttpError ==
    /\ Fetching
    /\ \E status \in ErrorStatuses :
          Attempt(HttpError(status), ErrorBody.size)
    /\ UNCHANGED <<solves, downloadFrame>>

\* The request raises.
FetchException ==
    /\ Fetching
    /\ \E kind \in ExceptionKinds : Attempt(Raised(kind), 0)
    /\ UNCHANGED <<solves, downloadFrame>>

\* The engine accepts the body and f.write raises (disk full, I/O error)
\* after a part of it has reached the file.
FetchWriteError ==
    /\ Fetching
    /\ \E body \in Bodies :
          /\ Verdict(Ok(body), pc = "refetch") = "write"
          /\ \E written \in WrittenPrefixes(body.size) :
                Attempt(Ok(body), written)
    /\ UNCHANGED <<solves, downloadFrame>>

\* _solve_waf: a page is opened on the url; a failure of goto is swallowed.
SolveWaf ==
    /\ pc = "solve"
    /\ solves' = [solves EXCEPT ![Head(queue)] = @ + 1]
    /\ networked' = TRUE
    /\ pc' = "refetch"
    /\ UNCHANGED <<disk, queue, attempt, cand, result, stats, failed_list,
                   fetched, downloadFrame>>

\* The end of the batch.  download_from_index writes a row per record to a
\* new report; the other batches rewrite their failure log with the failures
\* of this batch when there are any, and leave it alone when there are none.
Finish ==
    /\ pc = "report"
    /\ mode = "download"
    /\ IF engine = "cninfo_search"
       THEN /\ report' = result
            /\ UNCHANGED log
       ELSE /\ log' = IF failed_list # <<>> THEN RewriteLog(failed_list)
                      ELSE log
            /\ UNCHANGED report
    /\ pc' = "finished"
    /\ UNCHANGED <<disk, queue, attempt, cand, result, stats, failed_list,
                   fetched, solves, networked, batchInputs, valid_count,
                   missing_records, user_input>>

\* The process is interrupted between two steps.
Abort ==
    /\ pc \in {"build", "check", "fetch", "solve", "refetch", "report"}
    /\ pc' = "aborted"
    /\ UNCHANGED <<disk, queue, attempt, cand, result, stats, failed_list,
                   fetched, solves, networked, downloadFrame>>

\* The process is interrupted inside f.write: the file was opened on the
\* target path ('wb') and holds the bytes written so far.
AbortInWrite ==
    /\ Fetching
    /\ \E body \in Bodies :
          /\ Verdict(Ok(body), pc = "refetch") = "write"
          /\ \E written \in WrittenPrefixes(body.size) :
                /\ disk' = [disk EXCEPT ![Head(queue)] = File(written, FALSE)]
                /\ fetched' = [rec |-> Head(queue), cand |-> cand,
                               n |-> IF /\ fetched.rec = Head(queue)
                                        /\ fetched.cand = cand
                                     THEN fetched.n + 1 ELSE 1,
                               status |-> 200,
                               first |-> Verdict(Ok(body), FALSE),
                               res |-> "aborted",
                               after_waf |-> pc = "refetch"]
    /\ networked' = TRUE
    /\ pc' = "aborted"
    /\ UNCHANGED <<queue, attempt, cand, result, stats, failed_list, solves,
                   downloadFrame>>

----------------------------------------------------------------------------
(* SSEInquiriesScraper.verify_and_retry *)

\* "os.path.exists(filepath) and os.path.getsize(filepath) > 1000"
ValidFile(r) == disk[r].exists /\ disk[r].size > InquirySkipSize

\* The pass over all_records: a record without url is passed over, a record
\* whose file is valid is counted, every other record is missing.
IsMissing(r) == has_url[r] /\ ~ValidFile(r)
CountValid == Cardinality({r \in Recs : has_url[r] /\ ValidFile(r)})

\* No fetch was made yet.
NoFetch == [rec |-> 0, cand |-> 0, n |-> 0, status |-> 0, first |-> "none",
            res |-> "none", after_waf |-> FALSE]

\* What no step of verify_and_retry outside the downloads changes.
reconcileFrame == <<batchInputs, report, disk, attempt, cand, failed_list,
                    solves, networked>>

\* The pass finds missing records: the failure log is rewritten with one
\* line per missing record and the operator is asked.
VerifyGaps ==
    /\ pc = "verify"
    /\ \E r \in Recs : IsMissing(r)
    /\ valid_count' = CountValid
    /\ missing_records' = SelectSeq(AllRecords, IsMissing)
    /\ log' = RewriteLog(SelectSeq(AllRecords, IsMissing))
    /\ pc' = "prompt"
    /\ UNCHANGED <<queue, result, stats, fetched, user_input,
                   reconcileFrame>>

\* The pass finds no missing record: the failure log is removed.
VerifyClean ==
    /\ pc = "verify"
    /\ \A r \in Recs : ~IsMissing(r)
    /\ valid_count' = CountValid
    /\ missing_records' = <<>>
    /\ log' = NoLog
    /\ pc' = "reconciled"
    /\ UNCHANGED <<queue, result, stats, fetched, user_input,
                   reconcileFrame>>

\* The operator answers anything but y.
Decline ==
    /\ pc = "prompt"
    /\ user_input' = "n"
    /\ pc' = "reconciled"
    /\ UNCHANGED <<queue, result, stats, fetched, log, valid_count,
                   missing_records, reconcileFrame>>

\* The operator answers y: the missing records are downloaded one after the
\* other (a pool is used for more than 10 of them).
Accept ==
    /\ pc = "prompt"
    /\ user_input' = "y"
    /\ queue' = missing_records
    /\ result' = [r \in Recs |-> "none"]
    /\ stats' = [success |-> 0, skip |-> 0, fail |-> 0]
    /\ fetched' = NoFetch
    /\ pc' = "check"
    /\ UNCHANGED <<log, valid_count, missing_records, reconcileFrame>>

\* The downloads are over: after a success verify_and_retry calls itself.
RetryDone ==
    /\ pc = "report"
    /\ mode = "reconcile"
    /\ pc' = IF stats.success > 0 THEN "verify" ELSE "reconciled"
    /\ UNCHANGED <<queue, result, stats, fetched, log, valid_count,
                   missing_records, user_input, reconcileFrame>>

----------------------------------------------------------------------------
(* The pooled batches: download_from_json, download_from_index *)

\* The records of a pooled batch: their identifier (announcement_id, or
\* the fields local_filename is made of; 0 when empty) and their url.
PoolRecordKinds == <<[id |-> 1, url |-> 1],
                     [id |-> 0, url |-> 1],
                     [id |-> 0, url |-> 2]>>

\* The record lists of NumTasks such records; which records of a list are
\* equal is what matters, so equal records are taken next to each other.
PoolRecordLists ==
    {[i \in 1..NumTasks |-> PoolRecordKinds[k[i]]] :
        k \in {f \in [1..NumTasks -> 1..Len(PoolRecordKinds)] :
                   \A i \in 1..(NumTasks - 1) : f[i] <= f[i + 1]}}

\* download_from_index: key
Key(rec) == IF rec.id # 0 THEN <<"id", rec.id>> ELSE <<"url", rec.url>>

\* The target path: _parse_item puts the identifying fields and a hash of the
\* url in local_filename; _build_local_filename uses the announcement_id,
\* 'noid' when it is empty, and no part of the url.
PathOf(rec) == IF engine = "inquiry" THEN <<rec.id, rec.url>> ELSE <<rec.id>>

\* The session a task sends its requests with: _download_file of the inquiry
\* scraper makes a Session of its own (0 < its task number),
\* CninfoSearchDownloader._download_file uses self.session (0).
SessionOf(t) == IF engine = "inquiry" THEN t ELSE 0

\* download_from_index: the record at position i repeats the key of an
\* earlier one.
DuplicateKey(i) == \E j \in 1..(i - 1) : Key(records[j]) = Key(records[i])

\* Positions of the records that become tasks, in order.
RECURSIVE Submitted(_)
Submitted(n) ==
    IF n = 0 THEN <<>>
    ELSE IF engine = "cninfo_search" /\ DuplicateKey(n)
         THEN Submitted(n - 1)
         ELSE Append(Submitted(n - 1), n)

\* The rows download_from_index has before the pool starts.
RECURSIVE DuplicateRows(_)
DuplicateRows(n) ==
    IF n = 0 THEN <<>>
    ELSE IF engine = "cninfo_search" /\ DuplicateKey(n)
         THEN Append(DuplicateRows(n - 1), [rec |-> n, status |-> "skip"])
         ELSE DuplicateRows(n - 1)

Running == {t \in 1..Len(futures) : tstate[t] = "running"}
Returned == {t \in 1..Len(futures) : tstate[t] \in {"ok", "fail"}}
Collected == {rows[i].rec : i \in 1..Len(rows)}

poolFrame == <<cnt, mode, root, year, empty_cnt, stack, page, all_results,
               files, merged, faults, faulty, consec, ev, calls, probes,
               bisected, leaves, yearLog, inquiryVars, downloadVars, logVars,
               reconcileVars, toolVars, records, max_workers>>

\* The task list is built and every task is submitted to the executor.
PoolSubmit ==
    /\ pc = "submit"
    /\ futures' = Submitted(Len(records))
    /\ tstate' = [t \in 1..Len(Submitted(Len(records))) |-> "queued"]
    /\ rows' = DuplicateRows(Len(records))
    /\ pc' = "pool"
    /\ UNCHANGED poolFrame

\* A worker without task takes the oldest task of the executor's queue; the
\* executor has max_workers workers.
PoolStartAnyway ==
    /\ pc = "pool"
    /\ \E t \in 1..Len(futures) :
          /\ tstate[t] = "queued"
          /\ \A u \in 1..(t - 1) : tstate[u] # "queued"
          /\ tstate' = [tstate EXCEPT ![t] = "running"]
    /\ UNCHANGED <<pc, futures, rows, poolFrame>>

PoolStart ==
    /\ pc = "pool"
    /\ Cardinality(Running) < max_workers
    /\ \E t \in 1..Len(futures) :
          /\ tstate[t] = "queued"
          /\ \A u \in 1..(t - 1) : tstate[u] # "queued"
          /\ tstate' = [tstate EXCEPT ![t] = "running"]
    /\ UNCHANGED <<pc, futures, rows, poolFrame>>

\* _download_file returns (True, ...) or (False, ...); it raises nothing.
PoolDone ==
    /\ pc = "pool"
    /\ \E t \in Running, status \in {"ok", "fail"} :
          tstate' = [tstate EXCEPT ![t] = status]
    /\ UNCHANGED <<pc, futures, rows, poolFrame>>

\* The loop over as_completed, in the thread of the caller, takes a task
\* that has returned and adds its row (its count, its failure entry).
PoolCollect ==
    /\ pc = "pool"
    /\ \E t \in Returned :
          /\ futures[t] \notin Collected
          /\ rows' = Append(rows, [rec |-> futures[t],
                                   status |-> IF tstate[t] = "ok"
                                              THEN "success" ELSE "fail"])
    /\ UNCHANGED <<pc, futures, tstate, poolFrame>>

\* as_completed is exhausted and the executor has shut down: the failure
\* log or the report is written.
PoolWrite ==
    /\ pc = "pool"
    /\ \A t \in 1..Len(futures) : t \in Returned /\ futures[t] \in Collected
    /\ pc' = "written"
    /\ UNCHANGED <<futures, tstate, rows, poolFrame>>

----------------------------------------------------------------------------
(* SSEInquiriesScraper.deduplicate_files *)

Files == 1..NumFiles

\* The content of a file: its length, its MD5 digest, and which of the
\* contents of that length and digest it is.  Two contents that differ only
\* in v are different byte strings with the same digest.
Contents == [size : {DedupFloor - 1, DedupFloor}, md5 : 1..NumDigests,
             v : {1, 2}]

\* calculate_md5: the digest of the whole file.
calculate_md5(f) == listing[f].md5

\* os.path.getsize
getsize(f) == listing[f].size

\* os.listdir(files_dir), files only.
ListDir(dir) == SelectSeq([i \in Files |-> i], LAMBDA f : f \in dir)

NoneSeen == [h \in 1..NumDigests |-> 0]

RECURSIVE Scan(_, _, _)
\* The loop over the files: a file under 100 bytes is passed over; a file
\* whose digest was seen is a duplicate of the file that digest was first
\* seen on; any other file is entered under its digest.
Scan(names, seen, dups) ==
    IF names = <<>> THEN [seen_hashes |-> seen, duplicates |-> dups]
    ELSE LET filename == Head(names)
             file_hash == calculate_md5(filename)
         IN IF getsize(filename) < DedupFloor
            THEN Scan(Tail(names), seen, dups)
            ELSE IF seen[file_hash] # 0
            THEN Scan(Tail(names), seen,
                      Append(dups, <<filename, seen[file_hash]>>))
            ELSE Scan(Tail(names), [seen EXCEPT ![file_hash] = filename], dups)

\* The files deduplicate_files reports as duplicates.
DupNames == {duplicates[i][1] : i \in DOMAIN duplicates}

\* What no step of deduplicate_files changes.
dedupFrame == <<cnt, mode, root, year, empty_cnt, stack, page, all_results,
                files, merged, faults, faulty, consec, ev, calls, probes,
                bisected, leaves, yearLog, inquiryVars, downloadVars, logVars,
                reconcileVars, poolVars, configVars, identityVars>>

\* deduplicate_files up to its prompt: it returns when it found nothing.
ScanFiles ==
    /\ pc = "scan"
    /\ LET r == Scan(ListDir(present), NoneSeen, <<>>)
       IN /\ seen_hashes' = r.seen_hashes
          /\ duplicates' = r.duplicates
          /\ history' = Append(history, [dir |-> present,
                                         duplicates |-> r.duplicates])
          /\ pc' = IF r.duplicates = <<>> THEN "deduped" ELSE "confirm"
    /\ UNCHANGED <<listing, present, confirm>>
    /\ UNCHANGED dedupFrame

\* A cancellation that deletes the duplicates all the same.
CancelDeleteRemoves ==
    /\ pc = "confirm"
    /\ confirm' = "n"
    /\ present' = present \ DupNames
    /\ pc' = "deduped"
    /\ UNCHANGED <<listing, seen_hashes, duplicates, history>>
    /\ UNCHANGED dedupFrame

\* The operator answers anything but y.
CancelDelete ==
    /\ pc = "confirm"
    /\ confirm' = "n"
    /\ pc' = "deduped"
    /\ UNCHANGED <<listing, present, seen_hashes, duplicates, history>>
    /\ UNCHANGED dedupFrame

\* The operator answers y: every duplicate is removed, except those whose
\* os.remove raises (the exception is printed and the loop goes on).
ConfirmDelete ==
    /\ pc = "confirm"
    /\ confirm' = "y"
    /\ \E failed \in SUBSET DupNames : present' = present \ (DupNames \ failed)
    /\ pc' = "deduped"
    /\ UNCHANGED <<listing, seen_hashes, duplicates, history>>
    /\ UNCHANGED dedupFrame

\* deduplicate_files is called again on the same directory.
ScanAgain ==
    /\ pc = "deduped"
    /\ Len(history) < MaxScans
    /\ seen_hashes' = NoneSeen
    /\ duplicates' = <<>>
    /\ confirm' = ""
    /\ pc' = "scan"
    /\ UNCHANGED <<listing, present, history>>
    /\ UNCHANGED dedupFrame

----------------------------------------------------------------------------
(* CninfoSearchDownloader.run, SSESearchCrawler.__init__: the arguments *)

\* An optional argument: {} is None, {x} is the value x.
None == {}
Some(x) == {x}

\* A date text 'YYYY-MM-DD' of the year of the run: its month and day
\* fields.
DateText(m, d) == [m |-> m, d |-> d]

\* strptime(date_text, '%Y-%m-%d') raises unless the fields name a day of
\* the calendar.
DaysIn(m) == IF m = 2 THEN 29 ELSE IF m \in {4, 6, 9, 11} THEN 30 ELSE 31
Malformed(date_text) ==
    ~(date_text.m \in 1..12 /\ date_text.d \in 1..DaysIn(date_text.m))

\* _parse_date: a datetime, here the day's rank in the year.
_parse_date(date_text) == date_text.m * 31 + date_text.d

\* datetime.now() and the day 30 days before it.
today == DateText(3, 1)
default_start == DateText(1, 31)

Steps == {"index", "download", "all", "sync"}
OptionalInts == {None, Some(-1), Some(0), Some(1)}
DateTexts == {None, Some(DateText(1, 31)), Some(DateText(2, 30)),
              Some(DateText(3, 2))}
Keywords == {"", "kw"}

\* "start_date or default_start", "end_date or today"
OrElse(opt, default) == IF opt = None THEN default ELSE CHOOSE x \in opt : TRUE

\* A check of the arguments that leaves the workers out.
RunErrorSkipsWorkers(a) ==
    LET start_date == OrElse(a.start_date, default_start)
        end_date == OrElse(a.end_date, today)
    IN IF a.step \notin {"index", "download", "all"} THEN "step"
       ELSE IF \E n \in a.max_pages : n <= 0 THEN "max-pages"
       ELSE IF \E n \in a.max_results : n <= 0 THEN "max-results"
       ELSE IF Malformed(start_date) \/ Malformed(end_date) THEN "date"
       ELSE IF _parse_date(start_date) > _parse_date(end_date) THEN "range"
       ELSE "none"

\* The checks at the head of run, in their order: the ValueError that is
\* raised, "none" if there is none.
RunError(a) ==
    LET start_date == OrElse(a.start_date, default_start)
        end_date == OrElse(a.end_date, today)
    IN IF a.step \notin {"index", "download", "all"} THEN "step"
       ELSE IF \E n \in a.max_pages : n <= 0 THEN "max-pages"
       ELSE IF \E n \in a.max_results : n <= 0 THEN "max-results"
       ELSE IF \E n \in a.workers : n <= 0 THEN "workers"
       ELSE IF Malformed(start_date) \/ Malformed(end_date) THEN "date"
       ELSE IF _parse_date(start_date) > _parse_date(end_date) THEN "range"
       ELSE "none"

\* What no step of run or of the constructor changes.
configFrame == <<cnt, mode, root, year, empty_cnt, stack, page, all_results,
                 files, merged, faults, faulty, consec, ev, calls, probes,
                 bisected, leaves, yearLog, inquiryVars, engine, disk, disk0,
                 queue, attempt, cand, result, stats, failed_list, fetched,
                 solves, log, log0, reconcileVars, poolVars, dedupVars, args,
                 identityVars>>

\* run raises a ValueError.
RunRaises ==
    /\ pc = "args"
    /\ mode = "cninfo_run"
    /\ RunError(args) # "none"
    /\ pc' = "raised"
    /\ UNCHANGED <<networked, report, session, index_file, configFrame>>

\* Steps index and all: search_and_build_index posts its queries and
\* save_index writes the index files.
RunIndex ==
    /\ pc = "args"
    /\ mode = "cninfo_run"
    /\ RunError(args) = "none"
    /\ args.step \in {"index", "all"}
    /\ networked' = TRUE
    /\ index_file' = "written"
    /\ pc' = IF args.step = "all" THEN "download" ELSE "ran"
    /\ UNCHANGED <<report, session, configFrame>>

\* Steps download and all: download_from_index returns when the index is
\* missing or empty, else it fetches the files and writes its report.
RunDownload ==
    /\ mode = "cninfo_run"
    /\ \/ pc = "download"
       \/ pc = "args" /\ RunError(args) = "none" /\ args.step = "download"
    /\ \/ UNCHANGED <<networked, report>>
       \/ \E report_rows \in [Recs -> {"success", "fail", "skip"}] :
             /\ networked' = (\/ networked
                              \/ \E r \in Recs : report_rows[r] # "skip")
             /\ report' = report_rows
    /\ pc' = "ran"
    /\ UNCHANGED <<session, index_file, configFrame>>

\* SSESearchCrawler(output_dir, keyword) with an empty keyword raises.
CrawlerRaises ==
    /\ pc = "args"
    /\ mode = "sse_init"
    /\ args.keyword = ""
    /\ pc' = "raised"
    /\ UNCHANGED <<networked, report, session, index_file, configFrame>>

\* The constructor makes the session and _init_session opens the search
\* page with it.
CrawlerInit ==
    /\ pc = "args"
    /\ mode = "sse_init"
    /\ args.keyword # ""
    /\ session' = "open"
    /\ networked' = TRUE
    /\ pc' = "ran"
    /\ UNCHANGED <<report, index_file, configFrame>>

----------------------------------------------------------------------------
(* search_and_build_index and sse_search_merge, record by record *)

\* An item the server or a leaf file holds: its announcementId and the url
\* its adjunctUrl gives (the 'url' of a search record), 0 for an empty one.
Items == {[id |-> 1, url |-> 1], [id |-> 1, url |-> 2], [id |-> 0, url |-> 1],
          [id |-> 0, url |-> 2], [id |-> 0, url |-> 0]}

\* The pages the server sends and the lists the leaf files hold.
ItemLists == UNION {[1..n -> Items] : n \in {1, 2}}

\* "record.get('announcement_id') or record.get('download_url_static')";
\* an announcement id is a number, a download url starts with http.
\* sse_search_merge: "item.get('url')".  <<>> stands for the empty key.
uniq_key(record) ==
    IF mode = "merge_items"
    THEN IF record.url # 0 THEN <<"url", record.url>> ELSE <<>>
    ELSE IF record.id # 0 THEN <<"id", record.id>>
    ELSE IF record.url # 0 THEN <<"url", record.url>>
    ELSE <<>>

\* "if max_results and len(all_records) >= max_results"
Reached(limit, n) == \E k \in limit : k # 0 /\ n >= k

RECURSIVE AddItemsOverwriting(_, _, _, _)
\* A loop that puts the latest record of a key in the place of the first.
AddItemsOverwriting(all, seen, items, max_results) ==
    IF items = <<>> THEN [all_records |-> all, seen_keys |-> seen]
    ELSE LET record == Head(items)
             key == uniq_key(record)
         IN IF key = <<>> THEN AddItemsOverwriting(all, seen, Tail(items),
                                                   max_results)
            ELSE IF key \in seen
            THEN AddItemsOverwriting(
                     [i \in DOMAIN all |->
                         IF uniq_key(all[i]) = key THEN record ELSE all[i]],
                     seen, Tail(items), max_results)
            ELSE IF Reached(max_results, Len(all) + 1)
            THEN [all_records |-> Append(all, record),
                  seen_keys |-> seen \cup {key}]
            ELSE AddItemsOverwriting(Append(all, record), seen \cup {key},
                                     Tail(items), max_results)

RECURSIVE AddItems(_, _, _, _)
\* The loop over the items of a page or of a file: an item without key or
\* with a key that was seen is passed over, any other is appended; the loop
\* over a page breaks when max_results records are there.
AddItems(all, seen, items, max_results) ==
    IF items = <<>> THEN [all_records |-> all, seen_keys |-> seen]
    ELSE LET record == Head(items)
             key == uniq_key(record)
         IN IF key = <<>> \/ key \in seen
            THEN AddItems(all, seen, Tail(items), max_results)
            ELSE IF Reached(max_results, Len(all) + 1)
            THEN [all_records |-> Append(all, record),
                  seen_keys |-> seen \cup {key}]
            ELSE AddItems(Append(all, record), seen \cup {key}, Tail(items),
                          max_results)

\* What no step of the two functions changes.
identityFrame == <<cnt, mode, root, year, empty_cnt, stack, page,
                   all_results, files, merged, faults, faulty, consec, ev,
                   calls, probes, bisected, leaves, yearLog, inquiryVars,
                   downloadVars, logVars, reconcileVars, poolVars, dedupVars,
                   configVars>>

\* The server answers the query for page page_no with announcements and
\* hasMore.
IndexPage ==
    /\ pc = "index"
    /\ \E announcements \in ItemLists :
       \E has_more \in IF page_num < MaxIndexPages THEN BOOLEAN ELSE {FALSE} :
          LET r == AddItems(all_records, seen_keys, announcements,
                            args.max_results)
              stop == \/ Reached(args.max_results, Len(r.all_records))
                      \/ Reached(args.max_pages, page_num)
                      \/ ~has_more
          IN /\ input' = input \o announcements
             /\ all_records' = r.all_records
             /\ seen_keys' = r.seen_keys
             /\ page_num' = IF stop THEN page_num ELSE page_num + 1
             /\ pc' = IF stop THEN "indexed" ELSE "index"
    /\ UNCHANGED identityFrame

\* The request raises, the status is an error, the body is no JSON, or the
\* server answers with no announcements: the paging ends with what is there.
IndexStops ==
    /\ pc = "index"
    /\ pc' = "indexed"
    /\ UNCHANGED <<identityVars, identityFrame>>

\* sse_search_merge reads its next file.
MergeFile ==
    /\ pc = "merging"
    /\ page_num < MaxIndexPages
    /\ \E data \in ItemLists :
          LET r == AddItems(all_records, seen_keys, data, None)
          IN /\ input' = input \o data
             /\ all_records' = r.all_records
             /\ seen_keys' = r.seen_keys
    /\ page_num' = page_num + 1
    /\ UNCHANGED <<pc, identityFrame>>

\* The next file cannot be opened or parsed: "except Exception: pass".
MergeFileUnreadable ==
    /\ pc = "merging"
    /\ page_num < MaxIndexPages
    /\ page_num' = page_num + 1
    /\ UNCHANGED <<pc, input, all_records, seen_keys, identityFrame>>

\* There is no file left: all_data is saved.
MergeEnd ==
    /\ pc = "merging"
    /\ page_num >= 1
    /\ pc' = "merged"
    /\ UNCHANGED <<identityVars, identityFrame>>

----------------------------------------------------------------------------
(* Specifications *)

\* The inquiry drain is not running.
InquiryIdle ==
    /\ errors = 0
    /\ total_pages = 0
    /\ max_pages = 0

\* No pooled batch is running.
PoolIdle ==
    /\ records = <<>>
    /\ futures = <<>>
    /\ tstate = <<>>
    /\ rows = <<>>
    /\ max_workers = 0

\* deduplicate_files is not running.
DedupIdle ==
    /\ listing = <<>>
    /\ present = {}
    /\ seen_hashes = <<>>
    /\ duplicates = <<>>
    /\ confirm = ""
    /\ history = <<>>

\* Neither run nor a constructor is running.
ConfigIdle ==
    /\ args = <<>>
    /\ session = "none"
    /\ index_file = "none"

\* No index is being built and no merge is running.
IdentityIdle ==
    /\ input = <<>>
    /\ page_num = 0
    /\ all_records = <<>>
    /\ seen_keys = {}

ToolsIdle == DedupIdle /\ ConfigIdle /\ IdentityIdle

\* The search crawler is not running.
SearchIdle ==
    /\ cnt = [d \in Days |-> 0]
    /\ root = <<1, NumDays>>
    /\ page = 0
    /\ all_results = <<>>
    /\ stack = <<>>
    /\ calls = {}
    /\ year = 0
    /\ empty_cnt = 0
    /\ files = [x \in {} |-> <<>>]
    /\ merged = <<>>
    /\ faults = 0
    /\ faulty = FALSE
    /\ consec = 0
    /\ ev = [kind |-> "start", s |-> 0, e |-> 0, n |-> 0]
    /\ probes = {}
    /\ bisected = {}
    /\ leaves = <<>>
    /\ yearLog = <<>>

\* No download batch is running.
DownloadIdle ==
    /\ engine = "none"
    /\ disk = [r \in Recs |-> NoFile]
    /\ disk0 = disk
    /\ queue = <<>>
    /\ attempt = 1
    /\ cand = 1
    /\ result = [r \in Recs |-> "none"]
    /\ stats = [success |-> 0, skip |-> 0, fail |-> 0]
    /\ failed_list = <<>>
    /\ fetched = NoFetch
    /\ solves = [r \in Recs |-> 0]
    /\ networked = FALSE
    /\ log = NoLog
    /\ log0 = NoLog
    /\ report = <<>>
    /\ has_url = [r \in Recs |-> TRUE]
    /\ valid_count = 0
    /\ missing_records = <<>>
    /\ user_input = ""
    /\ PoolIdle

InitCommon ==
    /\ InquiryIdle
    /\ DownloadIdle
    /\ ToolsIdle
    /\ pc = "run"
    /\ page = 0
    /\ all_results = <<>>
    /\ files = [x \in {} |-> <<>>]
    /\ merged = <<>>
    /\ faults = 0
    /\ faulty = FALSE
    /\ consec = 0
    /\ ev = [kind |-> "start", s |-> 0, e |-> 0, n |-> 0]
    /\ probes = {}
    /\ bisected = {}
    /\ leaves = <<>>
    /\ yearLog = <<>>
    /\ empty_cnt = 0

\* One call run_recursive(1, e) on an empty output directory, then the merge.
Init ==
    /\ InitCommon
    /\ mode = "single"
    /\ \E e \in Days :
          /\ root = <<1, e>>
          /\ cnt \in [Days -> CountSet]
          /\ \A d \in Days : d > e => cnt[d] = 0
          /\ stack = <<Frame(1, e)>>
          /\ calls = {<<1, e>>}
    /\ year = 0

\* cmd_sse_search, steps crawl and merge.
InitDriver ==
    /\ InitCommon
    /\ mode = "driver"
    /\ cnt \in [Days -> CountSet]
    /\ year = CurrYear
    /\ root = <<YearStart(CurrYear), YearEnd(CurrYear)>>
    /\ stack = <<Frame(YearStart(CurrYear), YearEnd(CurrYear))>>
    /\ calls = {<<YearStart(CurrYear), YearEnd(CurrYear)>>}

\* One call search_all('', start_date, end_date, max_pages) of the inquiry
\* column, over all the days of the port.
InitInquiry ==
    /\ pc = "count"
    /\ mode = "inquiry"
    /\ cnt \in [Days -> CountSet]
    /\ root = <<1, NumDays>>
    /\ max_pages \in 0..MaxPagesArg
    /\ errors = 0
    /\ total_pages = 0
    /\ page = 0
    /\ all_results = <<>>
    /\ stack = <<>>
    /\ calls = {}
    /\ year = 0
    /\ empty_cnt = 0
    /\ files = [x \in {} |-> <<>>]
    /\ merged = <<>>
    /\ faults = 0
    /\ faulty = FALSE
    /\ consec = 0
    /\ ev = [kind |-> "start", s |-> 0, e |-> 0, n |-> 0]
    /\ probes = {}
    /\ bisected = {}
    /\ leaves = <<>>
    /\ yearLog = <<>>
    /\ DownloadIdle
    /\ ToolsIdle

\* Files earlier runs may have left at a target path: none, one that the
\* size test of the engine just rejects, one that it just accepts.
InitialFiles == {NoFile, File(SkipSize, TRUE), File(SkipSize + 1, TRUE)}

\* The failure log earlier runs may have left: none, or one that names
\* record 1.
InitialLogs == {NoLog, Log(<<1>>)}

\* One download batch of an engine over NumRecords records with a url and
\* distinct target paths, its tasks taken one after the other, beside the
\* failure log log0.
InitBatch ==
    /\ engine \in Engines
    /\ disk \in [Recs -> InitialFiles]
    /\ disk0 = disk
    /\ log = log0
    /\ report = <<>>
    /\ has_url = [r \in Recs |-> TRUE]
    /\ valid_count = 0
    /\ missing_records = <<>>
    /\ user_input = ""
    /\ PoolIdle
    /\ ToolsIdle
    /\ queue = IF StartPc = "check" THEN AllRecords ELSE <<>>
    /\ pc = IF StartPc = "check" THEN "check" ELSE "build"
    /\ attempt = 1
    /\ cand = 1
    /\ result = [r \in Recs |-> "none"]
    /\ stats = [success |-> 0, skip |-> 0, fail |-> 0]
    /\ failed_list = <<>>
    /\ fetched = NoFetch
    /\ solves = [r \in Recs |-> 0]
    /\ networked = FALSE
    /\ InquiryIdle
    /\ mode = "download"
    /\ cnt = [d \in Days |-> 0]
    /\ root = <<1, NumDays>>
    /\ page = 0
    /\ all_results = <<>>
    /\ stack = <<>>
    /\ calls = {}
    /\ year = 0
    /\ empty_cnt = 0
    /\ files = [x \in {} |-> <<>>]
    /\ merged = <<>>
    /\ faults = 0
    /\ faulty = FALSE
    /\ consec = 0
    /\ ev = [kind |-> "start", s |-> 0, e |-> 0, n |-> 0]
    /\ probes = {}
    /\ bisected = {}
    /\ leaves = <<>>
    /\ yearLog = <<>>

\* One call verify_and_retry() of the inquiry scraper over NumRecords
\* records, some of them without url, with any failure log left behind.
InitReconcile ==
    /\ engine = "inquiry"
    /\ mode = "reconcile"
    /\ pc = "verify"
    /\ disk \in [Recs -> InitialFiles]
    /\ disk0 = disk
    /\ has_url \in [Recs -> BOOLEAN]
    /\ log0 \in InitialLogs
    /\ log = log0
    /\ report = <<>>
    /\ valid_count = 0
    /\ missing_records = <<>>
    /\ user_input = ""
    /\ queue = <<>>
    /\ attempt = 1
    /\ cand = 1
    /\ result = [r \in Recs |-> "none"]
    /\ stats = [success |-> 0, skip |-> 0, fail |-> 0]
    /\ failed_list = <<>>
    /\ fetched = NoFetch
    /\ solves = [r \in Recs |-> 0]
    /\ networked = FALSE
    /\ PoolIdle
    /\ ToolsIdle
    /\ InquiryIdle
    /\ cnt = [d \in Days |-> 0]
    /\ root = <<1, NumDays>>
    /\ page = 0
    /\ all_results = <<>>
    /\ stack = <<>>
    /\ calls = {}
    /\ year = 0
    /\ empty_cnt = 0
    /\ files = [x \in {} |-> <<>>]
    /\ merged = <<>>
    /\ faults = 0
    /\ faulty = FALSE
    /\ consec = 0
    /\ ev = [kind |-> "start", s |-> 0, e |-> 0, n |-> 0]
    /\ probes = {}
    /\ bisected = {}
    /\ leaves = <<>>
    /\ yearLog = <<>>

\* A batch in a directory without failure log.
InitDownload ==
    /\ log0 = NoLog
    /\ InitBatch

\* A batch of an engine that keeps a failure log, in a directory where an
\* earlier batch failed to download record 1 and logged it.
InitBatchLog ==
    /\ log0 = Log(<<1>>)
    /\ InitBatch
    /\ engine # "cninfo_search"
    /\ ~SkipCheck(disk[1])

\* One pooled batch over a list of NumTasks records in which records and
\* keys may repeat, the files of none of them present.
InitPool ==
    /\ engine \in {"inquiry", "cninfo_search"}
    /\ mode = "pool"
    /\ pc = "submit"
    /\ records \in PoolRecordLists
    /\ max_workers \in 1..MaxWorkersArg
    /\ futures = <<>>
    /\ tstate = <<>>
    /\ rows = <<>>
    /\ disk = [r \in Recs |-> NoFile]
    /\ disk0 = disk
    /\ queue = <<>>
    /\ attempt = 1
    /\ cand = 1
    /\ result = [r \in Recs |-> "none"]
    /\ stats = [success |-> 0, skip |-> 0, fail |-> 0]
    /\ failed_list = <<>>
    /\ fetched = NoFetch
    /\ solves = [r \in Recs |-> 0]
    /\ networked = FALSE
    /\ log = NoLog
    /\ log0 = NoLog
    /\ report = <<>>
    /\ has_url = [r \in Recs |-> TRUE]
    /\ valid_count = 0
    /\ missing_records = <<>>
    /\ user_input = ""
    /\ ToolsIdle
    /\ InquiryIdle
    /\ cnt = [d \in Days |-> 0]
    /\ root = <<1, NumDays>>
    /\ page = 0
    /\ all_results = <<>>
    /\ stack = <<>>
    /\ calls = {}
    /\ year = 0
    /\ empty_cnt = 0
    /\ files = [x \in {} |-> <<>>]
    /\ merged = <<>>
    /\ faults = 0
    /\ faulty = FALSE
    /\ consec = 0
    /\ ev = [kind |-> "start", s |-> 0, e |-> 0, n |-> 0]
    /\ probes = {}
    /\ bisected = {}
    /\ leaves = <<>>
    /\ yearLog = <<>>

\* deduplicate_files on a directory of NumFiles files, run up to MaxScans
\* times.
InitDedup ==
    /\ mode = "dedup"
    /\ pc = "scan"
    /\ listing \in [Files -> Contents]
    /\ present = Files
    /\ seen_hashes = NoneSeen
    /\ duplicates = <<>>
    /\ confirm = ""
    /\ history = <<>>
    /\ ConfigIdle
    /\ IdentityIdle
    /\ SearchIdle
    /\ InquiryIdle
    /\ DownloadIdle

\* The arguments run is called with.
RunArgs == [step : Steps, max_pages : OptionalInts, max_results : OptionalInts,
            workers : OptionalInts, start_date : DateTexts,
            end_date : DateTexts, keyword : {"kw"}]

\* One call of CninfoSearchDownloader.run on a downloader whose constructor
\* has made its session, or one call of the constructor of SSESearchCrawler.
InitConfig ==
    /\ pc = "args"
    /\ \/ /\ mode = "cninfo_run"
          /\ args \in RunArgs
          /\ session = "open"
       \/ /\ mode = "sse_init"
          /\ args \in [keyword : Keywords]
          /\ session = "none"
    /\ index_file = "none"
    /\ DedupIdle
    /\ IdentityIdle
    /\ SearchIdle
    /\ InquiryIdle
    /\ DownloadIdle

\* The limits run hands to search_and_build_index: None or positive.
Limits == {None} \cup {Some(n) : n \in 1..MaxIndexPages}

\* One call of search_and_build_index, or one call of sse_search_merge on a
\* directory with at least one leaf file.
InitIdentity ==
    /\ \/ /\ mode = "index_items"
          /\ pc = "index"
          /\ page_num = 1
          /\ args \in [max_pages : Limits, max_results : Limits]
       \/ /\ mode = "merge_items"
          /\ pc = "merging"
          /\ page_num = 0
          /\ args = <<>>
    /\ input = <<>>
    /\ all_records = <<>>
    /\ seen_keys = {}
    /\ session = "none"
    /\ index_file = "none"
    /\ DedupIdle
    /\ SearchIdle
    /\ InquiryIdle
    /\ DownloadIdle

Next ==
    \/ ProbeOk
    \/ ProbeFail
    \/ RecursionCaught
    \/ RecursionCrash
    \/ PageOk
    \/ PageEmpty
    \/ PageBadBody
    \/ PageException
    \/ PagePartial
    \/ Merge

NextInquiry ==
    \/ InquiryCountOk
    \/ InquiryCountFail
    \/ InquiryPageOk
    \/ InquiryPageEmpty
    \/ InquiryPageBadBody
    \/ InquiryPageException
    \/ InquiryPagePartial

NextDownload ==
    \/ BuildTasks
    \/ CheckExisting
    \/ FetchOk
    \/ FetchHttpError
    \/ FetchException
    \/ FetchWriteError
    \/ SolveWaf
    \/ Finish
    \/ Abort
    \/ AbortInWrite

Spec == Init /\ [][Next]_vars

SpecDriver == InitDriver /\ [][Next]_vars

SpecInquiry == InitInquiry /\ [][NextInquiry]_vars

SpecDownload == InitDownload /\ [][NextDownload]_vars

SpecBatchLog == InitBatchLog /\ [][NextDownload]_vars

NextReconcile ==
    \/ VerifyGaps
    \/ VerifyClean
    \/ Decline
    \/ Accept
    \/ CheckExisting
    \/ FetchOk
    \/ FetchHttpError
    \/ FetchException
    \/ FetchWriteError
    \/ RetryDone

SpecReconcile == InitReconcile /\ [][NextReconcile]_vars

\* Every download returns (each request has a timeout, the attempts are
\* bounded) and the operator answers the prompt.
SpecResume == InitReconcile /\ [][NextReconcile]_vars /\ WF_vars(NextReconcile)

NextDedup ==
    \/ ScanFiles
    \/ CancelDelete
    \/ ConfirmDelete
    \/ ScanAgain

SpecDedup == InitDedup /\ [][NextDedup]_vars

NextConfig ==
    \/ RunRaises
    \/ RunIndex
    \/ RunDownload
    \/ CrawlerRaises
    \/ CrawlerInit

SpecConfig == InitConfig /\ [][NextConfig]_vars

NextIdentity ==
    \/ IndexPage
    \/ IndexStops
    \/ MergeFile
    \/ MergeFileUnreadable
    \/ MergeEnd

SpecIdentity == InitIdentity /\ [][NextIdentity]_vars

NextPool ==
    \/ PoolSubmit
    \/ PoolStart
    \/ PoolDone
    \/ PoolCollect
    \/ PoolWrite

\* The executor's threads run and every call of _download_file returns
\* (3 attempts at most, each request with a timeout).
SpecPool == InitPool /\ [][NextPool]_vars /\ WF_vars(NextPool)

----------------------------------------------------------------------------
(* Properties *)

Terminal == pc \in {"done", "crashed"}

LeafWindow(i) == <<leaves[i].s, leaves[i].e>>

RECURSIVE SumLeafTotals(_)
SumLeafTotals(ls) ==
    IF ls = <<>> THEN 0 ELSE Head(ls).total + SumLeafTotals(Tail(ls))

\* C1: with a failure-free, additive SearchPort the windows that one
\* run_recursive call has passed to search_all when it ends are pairwise
\* disjoint, lie inside the root window and cover every day of it that holds
\* records, so their totals sum to the total of the root window.
C1_LeavesPartitionRoot ==
    (Terminal /\ ~faulty) =>
        /\ \A i, j \in DOMAIN leaves :
              i # j => leaves[i].e < leaves[j].s \/ leaves[j].e < leaves[i].s
        /\ \A i \in DOMAIN leaves :
              root[1] <= leaves[i].s /\ leaves[i].s <= leaves[i].e
                                     /\ leaves[i].e <= root[2]
        /\ \A d \in root[1]..root[2] :
              Cnt(d) > 0 => \E i \in DOMAIN leaves :
                               leaves[i].s <= d /\ d <= leaves[i].e
        /\ SumLeafTotals(leaves) = Total(root[1], root[2])

\* C2: with a failure-free SearchPort, run_recursive on a root window, the
\* drains of its leaves and sse_search_merge end with a merged list that
\* holds exactly the records of the root window, each once.
C2_MergedIsTrueRecordSet ==
    (Terminal /\ ~faulty) =>
        /\ pc = "done"
        /\ Ids(merged) = WindowIds(root[1], root[2])
        /\ Count(merged) = Total(root[1], root[2])

\* C3: run_recursive never splits a single-day window (every recursive call
\* gets a strictly shorter window, so the recursion ends).
C3_SingleDayNeverSplit == \A w \in bisected : w[1] < w[2]

\* C4: a single-day window whose total is above the ceiling is passed to
\* search_all as a leaf, and the run is not ended by it.
C4_OverrunDayIsLeaf ==
    /\ \A p \in probes :
          (p.s = p.e /\ p.total > Ceiling) =>
              \E i \in DOMAIN leaves : LeafWindow(i) = <<p.s, p.e>>
    /\ pc # "crashed"

\* C5: every window passed to search_all had a probed total greater than 0
\* and at most the ceiling.
C5_LeafTotalWithinCeiling ==
    \A i \in DOMAIN leaves :
        /\ leaves[i].total > 0
        /\ leaves[i].total <= Ceiling
        /\ [s |-> leaves[i].s, e |-> leaves[i].e, total |-> leaves[i].total]
               \in probes

\* A split window has given a leaf whose total is exactly the ceiling.
C5_Witness ==
    \E i \in DOMAIN leaves :
        /\ leaves[i].total = Ceiling
        /\ LeafWindow(i) # root
        /\ root \in bisected

\* C6: every window run_recursive is called with, probes or drains has its
\* start not later than its end.
C6_WindowsWellFormed ==
    /\ \A w \in calls : w[1] <= w[2]
    /\ \A p \in probes : p.s <= p.e
    /\ \A i \in DOMAIN leaves : leaves[i].s <= leaves[i].e

\* C7: a probe that returns 0 (failed, or true total 0) makes run_recursive
\* skip exactly that window: no page request, no deeper call, no split, no
\* file; the pending callers, the leaves and the files of the other windows
\* stay as they are.
C7_ZeroTotalSkipsWindow ==
    [][(pc = "run" /\ ev'.kind \in {"probe", "probefail", "overflow"}
                   /\ ev'.n = 0)
          => /\ pc' # "drain"
             /\ leaves' = leaves
             /\ files' = files
             /\ bisected' = bisected
             /\ Len(stack') <= Len(stack)
             /\ \A i \in 1..(Len(stack') - 1) :
                   stack'[i].s = stack[i].s /\ stack'[i].e = stack[i].e]_vars

\* A probe of a window that holds records failed, the window was skipped and
\* a later window was still drained and written.
C7_Witness ==
    \E p \in probes :
        /\ p.total = 0
        /\ p.s <= p.e
        /\ Total(p.s, p.e) > 0
        /\ \A i \in DOMAIN leaves : LeafWindow(i) # <<p.s, p.e>>
        /\ \E i \in DOMAIN leaves :
              leaves[i].s > p.e /\ LeafWindow(i) \in DOMAIN files
        /\ pc = "done"

\* C8: the driver takes the years in descending order from the current year;
\* a year that gave at least one leaf resets the streak, a year without a leaf
\* adds one to it, and the driver stops exactly when the last
\* SSE_SEARCH_MAX_EMPTY_YEARS years gave no leaf.
C8_StreakCountsLeaflessYears ==
    LET n == Len(yearLog)
        LastAreLeafless ==
            /\ n >= SSE_SEARCH_MAX_EMPTY_YEARS
            /\ \A i \in (n - SSE_SEARCH_MAX_EMPTY_YEARS + 1)..n :
                  yearLog[i].leaves = 0
    IN /\ \A i \in 1..n : yearLog[i].year = CurrYear - (i - 1)
       /\ \A i \in 1..n :
             yearLog[i].streak =
                IF yearLog[i].leaves > 0 THEN 0
                ELSE (IF i = 1 THEN 0 ELSE yearLog[i - 1].streak) + 1
       /\ pc \in {"merge", "done", "crashed"} <=> LastAreLeafless

\* C9: a drain never makes more than 5 failing requests of one page in a row.
C9_AtMostFiveFailuresInARow == consec <= MaxPageErrors

\* C10: after a page body that cannot be unwrapped or parsed the drain is
\* still on the same page of the same window.
C10_BadBodyIsRetried ==
    ev.kind = "badbody" =>
        /\ pc = "drain"
        /\ page = ev.n
        /\ stack # <<>> /\ Top(stack).s = ev.s /\ Top(stack).e = ev.e

RECURSIVE FetchedPages(_, _, _)
\* The items of the first n pages of window [s, e], page after page.
FetchedPages(s, e, n) ==
    IF n = 0 THEN <<>>
    ELSE FetchedPages(s, e, n - 1) \o PageItems(s, e, n - 1)

\* C11: a drain is on its first page (0 for the SSE search, 1 for the inquiry
\* column) or on a later page that is not beyond the declared last page, and
\* the results it holds, and returns, are the items of the pages fetched so
\* far, page after page, each item once.
C11_DrainIsPagesInOrder ==
    /\ pc = "drain" =>
          LET f == Top(stack)
          IN /\ page >= 0
             /\ page > 0 => page <= TotalPage(f.s, f.e) - 1
             /\ all_results = FetchedPages(f.s, f.e, page)
    /\ pc = "page" =>
          /\ page >= 1
          /\ page > 1 => page <= total_pages
          /\ all_results = FetchedPages(root[1], root[2], page - 1)
    /\ pc = "returned" =>
          \E n \in 0..TotalPage(root[1], root[2]) :
              all_results = FetchedPages(root[1], root[2], n)

\* The url of the last fetch is the one the running task is on.
SameUrl == queue # <<>> /\ Head(queue) = fetched.rec /\ cand = fetched.cand

\* Every record had its file when the batch started.
AllPresent == \A r \in Recs : SkipCheck(disk0[r])

\* C12: a batch over records whose files all pass the size test issues no
\* network request, leaves every file as it was and reports every record as
\* skipped.
C12_RerunSkipsEverything ==
    (pc = "finished" /\ AllPresent) =>
        /\ ~networked
        /\ disk = disk0
        /\ stats.skip = NumRecords
        /\ stats.success = 0
        /\ stats.fail = 0

\* C13: a url is fetched at most max_retries (3) times; a fetch that raised
\* (network error, timeout) used up exactly one attempt and the same url is
\* fetched again while attempts are left; no fetch follows a success; after
\* the third failed attempt the url has failed: download_one is on its next
\* url, every other task has returned a failure.
C13_AtMostThreeAttempts ==
    /\ fetched.n <= max_retries
    /\ attempt <= max_retries
    /\ (Fetching /\ SameUrl /\ engine # "playwright") =>
          attempt = fetched.n + 1
    /\ (/\ engine # "playwright"
        /\ fetched.status = 0 /\ fetched.res = "retry"
        /\ fetched.n < max_retries
        /\ pc # "aborted") => Fetching /\ SameUrl
    /\ fetched.res = "ok" =>
          /\ result[fetched.rec] = "success"
          /\ ~SameUrl
    /\ (fetched.n = max_retries /\ fetched.res \notin {"ok", "aborted"}) =>
          /\ ~SameUrl
          /\ IF engine = "cninfo" /\ fetched.cand < NumCandidates
             THEN queue # <<>> /\ Head(queue) = fetched.rec
                               /\ cand = fetched.cand + 1
             ELSE result[fetched.rec] = "fail"

\* The third fetch of a url of the inquiry engine timed out and its task has
\* returned a failure.
C13_Witness ==
    /\ engine = "inquiry"
    /\ fetched.n = max_retries
    /\ fetched.status = 0
    /\ fetched.res = "retry"
    /\ result[fetched.rec] = "fail"

\* C14: after a 404 answer the engines with a retry loop make no further
\* fetch of that url.
C14_NotFoundIsTerminal ==
    (engine # "playwright" /\ fetched.status = 404) => ~(Fetching /\ SameUrl)

\* The last fetch got a body that is neither a challenge page nor accepted.
InvalidFetch ==
    /\ fetched.status = 200
    /\ ~fetched.after_waf
    /\ fetched.res \in {"retry", "small", "stop"}

\* C15: after a body that is too small or invalid the same url is fetched
\* again as long as attempts are left; the task has not failed before the
\* last attempt.
C15_InvalidIsRetried ==
    (InvalidFetch /\ fetched.n < max_retries /\ pc # "aborted") =>
        /\ Fetching /\ SameUrl
        /\ result[fetched.rec] = "none"

\* C16: _solve_waf runs at most once in a task and only right after the first
\* response was classified as a challenge page; the fetch is then made once
\* more, so a task makes at most 2 fetches; when the retried fetch fails
\* (no %PDF body, or the request raises) the task has failed and the file at
\* the target path is what it was before the batch.
C16_ChallengeSolvedOnce ==
    /\ \A r \in Recs :
          /\ solves[r] <= 1
          /\ solves[r] = 1 => engine = "playwright"
    /\ pc = "solve" =>
          /\ SameUrl /\ fetched.res = "challenge" /\ fetched.n = 1
          /\ solves[Head(queue)] = 0
    /\ pc = "refetch" =>
          /\ SameUrl /\ fetched.res = "challenge" /\ fetched.n = 1
          /\ solves[Head(queue)] = 1
    /\ engine = "playwright" =>
          /\ fetched.n <= 2
          /\ fetched.n = 2 => fetched.after_waf /\ solves[fetched.rec] = 1
    /\ (fetched.after_waf /\ fetched.res \in {"postchallenge", "stop"}) =>
          /\ result[fetched.rec] = "fail"
          /\ disk[fetched.rec] = disk0[fetched.rec]

\* A task was answered with a challenge page twice: the shield was solved
\* once, the second page ended the task, the file of an earlier run is still
\* there.
C16_Witness ==
    /\ fetched.after_waf
    /\ fetched.res = "postchallenge"
    /\ fetched.first = "challenge"
    /\ fetched.n = 2
    /\ solves[fetched.rec] = 1
    /\ result[fetched.rec] = "fail"
    /\ disk[fetched.rec].exists

\* C17: a body fetched after the challenge was solved that a first response
\* would have had accepted is committed and the task succeeds.
C17_RetriedBodyJudgedAsFirst ==
    (/\ fetched.after_waf
     /\ fetched.first = "write"
     /\ fetched.res \notin {"writeerror", "aborted"}) =>
        /\ fetched.res = "ok"
        /\ result[fetched.rec] = "success"

\* The smallest file an engine may report as downloaded.
MinValidSize ==
    CASE engine = "playwright" -> PlaywrightMinBody + 1
      [] engine = "inquiry" -> InquiryMinSize
      [] engine = "cninfo_search" -> CninfoSearchMinSize + 1
      [] engine = "cninfo" -> CninfoMinSize + 1

\* C18: a task that returned success has left a file of at least the minimum
\* valid size at its target path; a written file below the minimum is
\* removed and the attempt has failed.
C18_CommitRevalidates ==
    /\ \A r \in Recs :
          result[r] = "success" =>
              disk[r].exists /\ disk[r].size >= MinValidSize
    /\ fetched.res = "small" =>
          /\ ~disk[fetched.rec].exists
          /\ result[fetched.rec] # "success"

\* C19: once a task has returned, a file above the size of the existence test
\* at its target path is a complete accepted body, and there is no such file
\* when the task has failed.
C19_NoPartialFileAboveThreshold ==
    \A r \in Recs :
        /\ (result[r] # "none" /\ SkipCheck(disk[r])) => disk[r].whole
        /\ result[r] = "fail" => ~SkipCheck(disk[r])

\* C20: after an interruption every file the existence test of the next run
\* accepts is a complete accepted body, and the files of the tasks that
\* succeeded are among them unless the engine itself commits below that size.
C20_AbortLeavesNoPartialFile ==
    pc = "aborted" =>
        \A r \in Recs :
            /\ SkipCheck(disk[r]) => disk[r].whole
            /\ result[r] = "success" => disk[r].exists /\ disk[r].whole

\* Times r occurs in the sequence s.
Occurrences(s, r) == Cardinality({i \in 1..Len(s) : s[i] = r})

\* C21: download_one tries the urls of download_urls in their order, a url is
\* tried only after the one before it has failed (a 404 included) and each
\* url gets the attempts of download_file; the first url that succeeds ends
\* the task with success and no fetch of this record follows; the record is
\* put on the failure list exactly when it has failed, which takes a failure
\* of the last url.
C21_CandidatesInOrder ==
    engine = "cninfo" =>
        /\ cand \in 1..NumCandidates
        /\ (Fetching /\ queue # <<>>) =>
              IF fetched.rec # Head(queue)
              THEN cand = 1 /\ attempt = 1
              ELSE /\ fetched.res # "ok"
                   /\ \/ fetched.cand = cand /\ attempt = fetched.n + 1
                      \/ fetched.cand + 1 = cand /\ attempt = 1
        /\ fetched.res = "ok" =>
              /\ result[fetched.rec] = "success"
              /\ ~(queue # <<>> /\ Head(queue) = fetched.rec)
        /\ (fetched.status = 404 /\ fetched.cand < NumCandidates) =>
              /\ queue # <<>> /\ Head(queue) = fetched.rec
              /\ cand = fetched.cand + 1
              /\ result[fetched.rec] = "none"
        /\ \A r \in Recs :
              /\ result[r] = "fail" <=> Occurrences(failed_list, r) > 0
              /\ (result[r] = "fail" /\ fetched.rec = r) =>
                    fetched.cand = NumCandidates /\ fetched.res # "ok"

\* The first two urls of a record failed and its third url gave the file.
C21_Witness ==
    /\ engine = "cninfo"
    /\ fetched.cand = NumCandidates
    /\ fetched.res = "ok"
    /\ result[fetched.rec] = "success"

\* C22: the failure list of a batch holds one entry for each task that failed
\* and none for any other record; when the batch is over the failure log
\* holds just this list if it is not empty (it is not written otherwise),
\* and the report of download_from_index holds each record's status.
C22_FailuresAreLogged ==
    /\ \A r \in Recs :
          Occurrences(failed_list, r) = IF result[r] = "fail" THEN 1 ELSE 0
    /\ pc = "finished" =>
          IF engine = "cninfo_search"
          THEN report = result
          ELSE log = IF failed_list = <<>> THEN log0 ELSE Log(failed_list)

\* A batch of the inquiry engine failed on record 1, downloaded record 2 and
\* wrote a log with the one entry.
C22_Witness ==
    /\ pc = "finished"
    /\ engine = "inquiry"
    /\ result[1] = "fail"
    /\ result[2] = "success"
    /\ log = Log(<<1>>)

\* C23: when a download batch is over, the entries the failure log had before
\* the batch are still in it, before those the batch added.
C23_BatchOnlyAppends ==
    pc = "finished" =>
        /\ log.exists
        /\ Len(log.entries) >= Len(log0.entries)
        /\ SubSeq(log.entries, 1, Len(log0.entries)) = log0.entries

\* C24: when a download batch is over, the failure log names no record whose
\* file passes the size test.
C24_LogNamesNoValidFile ==
    pc = "finished" =>
        \A i \in 1..Len(log.entries) : ~SkipCheck(disk[log.entries[i]])

C26_PoolIsBounded ==
    /\ [](/\ Cardinality(Running) <= max_workers
          /\ pc = "written" =>
                \A t \in 1..Len(futures) :
                    t \in Returned /\ futures[t] \in Collected)
    /\ [][\A t \in (DOMAIN tstate) \cap (DOMAIN tstate') :
             /\ tstate[t] = "running" =>
                   tstate'[t] \in {"running", "ok", "fail"}
             /\ tstate[t] \in {"ok", "fail"} => tstate'[t] = tstate[t]
             /\ tstate'[t] = "queued" => tstate[t] = "queued"]_vars
    /\ <>(pc = "written")

\* Every worker of a pool of at least 2 has a task and a task is waiting.
C26_Witness ==
    /\ pc = "pool"
    /\ max_workers >= 2
    /\ Cardinality(Running) = max_workers
    /\ \E t \in 1..Len(futures) : tstate[t] = "queued"

\* C27: two tasks that run at the same time have different target paths.
C27_NoTwoTasksOnOnePath ==
    \A t, u \in Running :
        t # u => PathOf(records[futures[t]]) # PathOf(records[futures[u]])

\* C28: two tasks that run at the same time use different sessions, and the
\* accumulated rows hold at most one row per record, the row of a task
\* carrying what the task returned.
C28_WorkersShareNoSession ==
    /\ \A t, u \in Running : t # u => SessionOf(t) # SessionOf(u)
    /\ \A n \in 1..Len(records) :
          Cardinality({i \in 1..Len(rows) : rows[i].rec = n}) <= 1
    /\ \A t \in 1..Len(futures), i \in 1..Len(rows) :
          rows[i].rec = futures[t] =>
              rows[i].status = IF tstate[t] = "ok" THEN "success" ELSE "fail"

\* C29: right after the pass of verify_and_retry valid_count is the number
\* of records whose file passes the size test of _download_file, the
\* missing records are all the others, each once.
C29_ReconcileCountsGaps ==
    (pc = "prompt" \/ (pc = "reconciled" /\ missing_records = <<>>)) =>
        /\ valid_count = Cardinality({r \in Recs : SkipCheck(disk[r])})
        /\ Len(missing_records) = NumRecords - valid_count
        /\ \A r \in Recs :
              Occurrences(missing_records, r) =
                  IF SkipCheck(disk[r]) THEN 0 ELSE 1

\* C30: a pass of verify_and_retry that finds missing records leaves a
\* failure log that holds one entry for each of them, in their order, and
\* nothing of what the log held before; the log stays so until the next pass.
C30_ReconcileRewritesLog ==
    /\ pc = "prompt" =>
          /\ missing_records = SelectSeq(AllRecords, IsMissing)
          /\ missing_records # <<>>
    /\ (\/ pc \in {"prompt", "check", "fetch", "report"}
        \/ pc = "reconciled" /\ missing_records # <<>>) =>
          log = Log(missing_records)

\* The log named record 1 before the run; the pass found only record 2
\* missing and the log names only record 2.
C30_Witness ==
    /\ pc = "prompt"
    /\ log0 = Log(<<1>>)
    /\ log = Log(<<2>>)

\* C31: when a run of verify_and_retry has returned, the failure log exists
\* exactly if some record with a url has no valid file.
C31_LogExistsIffGapRemains ==
    pc = "reconciled" => (log.exists <=> \E r \in Recs : IsMissing(r))

\* C32: the missing records are downloaded only after the operator answered
\* y; a pass that follows a retry finds fewer missing records than the pass
\* before it; when the operator never answers n the run ends either with no
\* missing record and no log, or with a log that holds exactly the records
\* the last pass found missing, all of whose downloads failed; and the run
\* ends.
C32_ResumeConverges ==
    /\ [](pc \in {"check", "fetch", "report"} => user_input = "y")
    /\ [][(disk' # disk \/ networked' # networked) => user_input = "y"]_vars
    /\ [][(pc = "verify" /\ user_input = "y") =>
             Len(missing_records') < Len(missing_records)]_vars
    /\ []((pc = "reconciled" /\ user_input # "n") =>
            \/ /\ missing_records = <<>>
               /\ ~log.exists
               /\ \A r \in Recs : ~IsMissing(r)
            \/ /\ missing_records # <<>>
               /\ log = Log(missing_records)
               /\ stats.success = 0
               /\ \A i \in 1..Len(missing_records) :
                     result[missing_records[i]] = "fail")
    /\ <>(pc = "reconciled")

\* Two records were missing; the first retry fetched record 1 and failed on
\* record 2, the second retry failed on record 2 again: the run has ended
\* and the log names record 2 alone.
C32_Witness ==
    /\ pc = "reconciled"
    /\ user_input = "y"
    /\ has_url[1]
    /\ disk0[1] # disk[1]
    /\ ValidFile(1)
    /\ result[2] = "fail"
    /\ log = Log(<<2>>)

\* C37: the file of a task that returned a success passes the file test
\* with which the same engine takes a record as downloaded.
C37_CommittedFileIsSkipped ==
    \A r \in Recs : result[r] = "success" => SkipCheck(disk[r])

\* C39: the results of a drain hold no item twice, also after the handling
\* of a page raised and the page was requested again.
C39_PageItemsAppendedOnce ==
    Count(all_results) = Cardinality(Ids(all_results))

\* The directory the last scan listed, and its files of 100 bytes or more.
ScannedDir == history[Len(history)].dir
Hashed == {f \in ScannedDir : getsize(f) >= DedupFloor}
Reported(f) == \E i \in DOMAIN duplicates : duplicates[i][1] = f

\* C34: after a scan, a file of at least 100 bytes is reported as a duplicate
\* exactly if a file of at least 100 bytes listed before it has the same
\* content; it is paired with the first listed file of that content; no
\* file under 100 bytes is in a pair.
C34_SameContentIffReported ==
    pc \in {"confirm", "deduped"} =>
        /\ \A f \in Hashed :
              Reported(f) <=>
                  \E g \in Hashed : g < f /\ listing[g] = listing[f]
        /\ \A i \in DOMAIN duplicates :
              LET f == duplicates[i][1]
                  o == duplicates[i][2]
              IN /\ f \in Hashed
                 /\ o \in Hashed
                 /\ listing[o] = listing[f]
                 /\ \A g \in Hashed : listing[g] = listing[f] => o <= g

\* C35: no step of deduplicate_files changes the content of a file, files
\* are removed only when the operator has answered y, and two scans of the
\* same directory report the same duplicates.
C35_ScanChangesNothing ==
    /\ [][listing' = listing]_vars
    /\ [][present' # present => (pc = "confirm" /\ confirm' = "y")]_vars
    /\ [](\A i, j \in DOMAIN history :
            history[i].dir = history[j].dir =>
                history[i].duplicates = history[j].duplicates)

\* The operator cancelled the deletion of the first run; the second run
\* has scanned the same directory and reported the same duplicates.
C35_Witness ==
    /\ pc = "confirm"
    /\ Len(history) = 2
    /\ present = Files
    /\ history[1].duplicates # <<>>
    /\ history[2] = history[1]

\* C38: after a confirmed deletion, of the files of at least 100 bytes that
\* shared their content with another one only the first listed is left, every
\* file under 100 bytes and every file whose content no other file had is
\* still there, and a new scan finds no duplicates.
C38_OneCopyIsKept ==
    (pc = "deduped" /\ confirm = "y") =>
        /\ \A f \in Hashed :
              (\E g \in Hashed : g # f /\ listing[g] = listing[f]) =>
                  (f \in present <=>
                      \A g \in Hashed : listing[g] = listing[f] => f <= g)
        /\ \A f \in ScannedDir :
              (\/ getsize(f) < DedupFloor
               \/ \A g \in Hashed \ {f} : listing[g] # listing[f]) =>
                  f \in present
        /\ Scan(ListDir(present), NoneSeen, <<>>).duplicates = <<>>

\* C33: a call of run with a step other than index, download and all, with
\* max_pages, max_results or workers that is not positive, with a date that
\* is no day of the calendar, or with a start date (30 days ago if none is
\* given) after the end date (today if none is given) never gets past its
\* argument checks: no request is sent and neither index nor report is
\* written; SSESearchCrawler with an empty keyword never makes its session.
C33_BadArgumentsAbortFirst ==
    /\ mode = "cninfo_run" =>
          LET start_date == OrElse(args.start_date, default_start)
              end_date == OrElse(args.end_date, today)
              bad == \/ args.step \notin {"index", "download", "all"}
                     \/ \E n \in args.max_pages : n <= 0
                     \/ \E n \in args.max_results : n <= 0
                     \/ \E n \in args.workers : n <= 0
                     \/ Malformed(start_date)
                     \/ Malformed(end_date)
                     \/ _parse_date(start_date) > _parse_date(end_date)
          IN (bad \/ pc = "raised") =>
                /\ pc \in {"args", "raised"}
                /\ ~networked
                /\ index_file = "none"
                /\ report = <<>>
    /\ (mode = "sse_init" /\ (args.keyword = "" \/ pc = "raised")) =>
          /\ pc \in {"args", "raised"}
          /\ session = "none"
          /\ ~networked

\* run(step='all', workers=0) with nothing else wrong has raised.
C33_Witness ==
    /\ mode = "cninfo_run"
    /\ pc = "raised"
    /\ args.step = "all"
    /\ args.workers = Some(0)
    /\ RunErrorSkipsWorkers(args) = "none"

RECURSIVE FirstOfEachKey(_)
\* The items of a list that have a key no item before them has, in order.
FirstOfEachKey(n) ==
    IF n = 0 THEN <<>>
    ELSE IF /\ uniq_key(input[n]) # <<>>
            /\ \A j \in 1..(n - 1) : uniq_key(input[j]) # uniq_key(input[n])
         THEN Append(FirstOfEachKey(n - 1), input[n])
         ELSE FirstOfEachKey(n - 1)

\* C36: the records of the merge and of the index have pairwise different
\* keys; they are, in order, the first item of every key that is not empty
\* among the items read, all of them for the merge and for an index without
\* max_results, the first max_results of them otherwise; and the index never
\* asks for a page beyond max_pages.
C36_FirstOfEachKeyKept ==
    pc \in {"index", "indexed", "merging", "merged"} =>
        LET firsts == FirstOfEachKey(Len(input))
            max_results == IF mode = "merge_items" THEN None
                           ELSE args.max_results
        IN /\ \A i, j \in DOMAIN all_records :
                 uniq_key(all_records[i]) = uniq_key(all_records[j]) => i = j
           /\ \A i \in DOMAIN all_records : uniq_key(all_records[i]) # <<>>
           /\ IF \E k \in max_results : Len(firsts) >= k
              THEN \E k \in max_results : all_records = SubSeq(firsts, 1, k)
              ELSE all_records = firsts
           /\ \A k \in max_results : Len(all_records) <= k
           /\ mode = "index_items" => \A k \in args.max_pages : page_num <= k

\* Two pages were read; the second item of page 1 has the announcement id of
\* the first and another url, page 2 brings a record without id: the index
\* holds the first item and the record without id.
C36_Witness ==
    /\ mode = "index_items"
    /\ pc = "indexed"
    /\ page_num = 2
    /\ Len(input) = 4
    /\ input[1].id = 1
    /\ input[2].id = 1
    /\ input[2] # input[1]
    /\ all_records = <<input[1], [id |-> 0, url |-> 2]>>

====
